---- MODULE Spec2Model ----
(***************************************************************************)
(* NEM12 daily generation pipeline of usthub_botany_mascot001_Daily:       *)
(*   step3_get_NMI12_ori          (estimate, interpolate, format, save)    *)
(*   step4_get_all300_andTriggerDate (scan the 300 records, backtrack)     *)
(*   step5_multiple300_clear610   (copy, overlay F records, zero N days)   *)
(*   step6_clear610and710         (carry the last non-N total forward)     *)
(*                                                                         *)
(* Days are numbered 1, 2, ... in date order.  A grid is a function over   *)
(* the slot indices 0..96 (the Python list `values`); a reading is a       *)
(* natural number and HASH stands for the missing marker '#'.  Decimal     *)
(* amounts (differences, totals) are kept in thousandths, the unit of      *)
(* Decimal('0.001') they are quantized to.  Character strings that the     *)
(* code searches with `in` are sequences of character codes.               *)
(***************************************************************************)
EXTENDS Integers, Sequences, FiniteSets, TLC

\* len(time_slots): 97 points, 00:00 .. 00:00 of the next day, every 15 min
NSlots == 97
\* the missing marker '#'
HASH == -1
\* stands for Python's None where a day is expected
NoDay == 0

\* ------------------------------------------------------------------------
\* Bounds of the model
\* ------------------------------------------------------------------------
\* number of day files one run writes (the code's window writes 2)
NFiles == 3
\* number of grid days of the estimator-only specification
NEstDays == 5

Slots == 0..(NSlots - 1)

Min(S) == CHOOSE x \in S : \A y \in S : x <= y
Max(S) == 0 - Min({0 - x : x \in S})

\* ------------------------------------------------------------------------
\* step3: estimate_missing_days, for one meter (one turn of `for nmi, ...`)
\* ------------------------------------------------------------------------
\* status[day] = all(v == '#' for v in daily_data[day])
AllMissing(values) == \A j \in DOMAIN values : values[j] = HASH

DayStatus(daily_data) == [day \in DOMAIN daily_data |-> AllMissing(daily_data[day])]

\* The loop `for day in days` that collects (start_day, end_day) pairs, and
\* the closing `if start_day is not None` that ends a run at days[-1] + 1.
RECURSIVE CollectSegments(_, _, _, _)
CollectSegments(status, day, start_day, segs) ==
    IF day > Len(status)
    THEN IF start_day # NoDay THEN Append(segs, <<start_day, Len(status) + 1>>) ELSE segs
    ELSE IF status[day]
         THEN CollectSegments(status, day + 1,
                              IF start_day = NoDay THEN day ELSE start_day, segs)
         ELSE IF start_day # NoDay
              THEN CollectSegments(status, day + 1, NoDay, Append(segs, <<start_day, day>>))
              ELSE CollectSegments(status, day + 1, NoDay, segs)

MissingSegments(daily_data) == CollectSegments(DayStatus(daily_data), 1, NoDay, << >>)

\* prev_day = max([d for d in days if d < start_day and not status[d]], default=None)
PrevDay(status, start_day) ==
    LET c == {d \in DOMAIN status : d < start_day /\ ~status[d]}
    IN  IF c = {} THEN NoDay ELSE Max(c)

\* next_day = min([d for d in days if d > end_day and not status[d]], default=None)
NextDay(status, end_day) ==
    LET c == {d \in DOMAIN status : d > end_day /\ ~status[d]}
    IN  IF c = {} THEN NoDay ELSE Min(c)

MaxValue(values) == Max({values[j] : j \in {k \in DOMAIN values : values[k] # HASH}})
MinValue(values) == Min({values[j] : j \in {k \in DOMAIN values : values[k] # HASH}})

\* daily_step = (min_value_next - max_value_prev) // (missing_days + 1)
DailyStep(max_value_prev, min_value_next, missing_days) ==
    (min_value_next - max_value_prev) \div (missing_days + 1)

\* A day offset that counts the run's days from 1.
DayValueFromOne(max_value_prev, i, daily_step) == max_value_prev + (i + 1) * daily_step

\* day_value = max_value_prev + i * daily_step
DayValue(max_value_prev, i, daily_step) == max_value_prev + i * daily_step

\* daily_values[0] = day_value; daily_values[j] = daily_values[0] + (j * daily_step) // 96
SynthGrid(day_value, daily_step) ==
    [j \in Slots |-> IF j = 0 THEN day_value ELSE day_value + ((j * daily_step) \div 96)]

FlatGrid(v) == [j \in Slots |-> v]

\* One turn of `for start_day, end_day in missing_segments`: the grid the
\* branch taken writes for missing_day, or the grid as it was (no branch).
FillDay(daily_data, status, start_day, end_day, missing_day) ==
    LET prev_day == PrevDay(status, start_day)
        next_day == NextDay(status, end_day)
    IN  IF prev_day # NoDay /\ next_day # NoDay
        THEN LET max_value_prev == MaxValue(daily_data[prev_day])
                 min_value_next == MinValue(daily_data[next_day])
                 daily_step == DailyStep(max_value_prev, min_value_next, end_day - start_day)
             IN  SynthGrid(DayValue(max_value_prev, missing_day - start_day, daily_step),
                           daily_step)
        ELSE IF prev_day = NoDay /\ next_day # NoDay
        THEN FlatGrid(MinValue(daily_data[next_day]))
        ELSE IF prev_day # NoDay /\ next_day = NoDay
        THEN FlatGrid(MaxValue(daily_data[prev_day]))
        ELSE daily_data[missing_day]

\* full_day_filled[nmi][missing_day] = True is set in each of the three branches
SegmentFilled(status, start_day, end_day) ==
    PrevDay(status, start_day) # NoDay \/ NextDay(status, end_day) # NoDay

RECURSIVE FillSegments(_, _, _, _, _)
FillSegments(daily_data, full, status, segs, k) ==
    IF k > Len(segs) THEN [data |-> daily_data, full_day_filled |-> full]
    ELSE LET start_day == segs[k][1]
             end_day == segs[k][2]
             run == start_day..(end_day - 1)
             nd == [d \in DOMAIN daily_data |->
                      IF d \in run
                      THEN FillDay(daily_data, status, start_day, end_day, d)
                      ELSE daily_data[d]]
             nf == IF SegmentFilled(status, start_day, end_day) THEN full \cup run ELSE full
         IN  FillSegments(nd, nf, status, segs, k + 1)

\* estimate_missing_days for one meter: the mutated day -> grid map and the
\* set of days with full_day_filled[nmi][day] = True
EstimateMeter(daily_data) ==
    FillSegments(daily_data, {}, DayStatus(daily_data), MissingSegments(daily_data), 1)

EstimateAll(data) == [nmi \in DOMAIN data |-> EstimateMeter(data[nmi])]

\* ------------------------------------------------------------------------
\* step3: interpolate_missing_values
\* ------------------------------------------------------------------------
\* the slot indices a..b, in order (the entries appended to filled_times)
IndexRun(a, b) == [k \in 1..(b - a + 1) |-> a + k - 1]

NonHashSlots(values) == {k \in DOMAIN values : values[k] # HASH}

\* `if values[0] == '#'`: every leading '#' becomes the first non-'#' value
LeadingFill(values) ==
    IF values[0] = HASH /\ NonHashSlots(values) # {}
    THEN LET f == Min(NonHashSlots(values))
         IN  [values |-> [k \in DOMAIN values |-> IF k < f THEN values[f] ELSE values[k]],
              filled_times |-> IndexRun(0, f - 1)]
    ELSE [values |-> values, filled_times |-> << >>]

\* A delta that divides by the gap itself.
InterpDeltaByGap(start_value, end_value, gap) == (end_value - start_value) \div gap

\* delta = (end_value - start_value) // (gap + 1)
InterpDelta(start_value, end_value, gap) == (end_value - start_value) \div (gap + 1)

\* `for i in range(n)`, on the list it mutates.  A turn at a slot that is not
\* '#' does nothing, so the loop is followed from one '#' slot to the next.
\* A turn that takes neither branch has i = 0 or values[i-1] = '#', which
\* after the leading fill happens only on a list that is '#' throughout:
\* then no later turn takes a branch either and the list comes back as it is.
RECURSIVE InterpLoop(_, _, _)
InterpLoop(values, filled_times, from) ==
    LET hashes == {k \in DOMAIN values : k >= from /\ values[k] = HASH}
    IN  IF hashes = {} THEN [values |-> values, filled_times |-> filled_times]
        ELSE LET i == Min(hashes)
                 start == i - 1
                 end == Min({k \in DOMAIN values : k > i /\ values[k] # HASH} \cup {NSlots})
             IN  IF start >= 0 /\ end < NSlots /\ values[start] # HASH /\ values[end] # HASH
                 THEN LET gap == end - start - 1
                          delta == InterpDelta(values[start], values[end], gap)
                      IN  InterpLoop(
                              [k \in DOMAIN values |->
                                  IF k > start /\ k < end
                                  THEN values[start] + (k - start) * delta
                                  ELSE values[k]],
                              filled_times \o IndexRun(start + 1, end - 1),
                              i + 1)
                 ELSE IF end >= NSlots /\ start >= 0 /\ values[start] # HASH
                 THEN InterpLoop(
                          [k \in DOMAIN values |->
                              IF k > start THEN values[start] ELSE values[k]],
                          filled_times \o IndexRun(start + 1, NSlots - 1),
                          i + 1)
                 ELSE [values |-> values, filled_times |-> filled_times]

interpolate_missing_values(values) ==
    LET lead == LeadingFill(values)
    IN  InterpLoop(lead.values, lead.filled_times, 0)

\* ------------------------------------------------------------------------
\* The meters of the mapping file (Meter_Serial_Mapping.csv)
\* ------------------------------------------------------------------------
Meters == {1, 2}

\* which serials the HWMETERNO column holds: "distinct" serials, or "nested"
\* ones, where the serial of meter 1 is the beginning of that of meter 2
VARIABLE mapping_file

\* HWMETERNMI, the key of nmi_mapping: "N1", "N2"
NmiText(nmi) == <<78, 48 + nmi>>
\* HWMETERNO, the meter serial: "S1", "S2"; nested: "S1", "S12"
HWMETERNO(nmi) ==
    IF mapping_file = "nested" /\ nmi = 2 THEN <<83, 49, 50>> ELSE <<83, 48 + nmi>>
\* Offset_usage and litter_factor columns
Offset_usage(nmi) == IF nmi = 1 THEN 0 ELSE 189125
litter_factor(nmi) == IF nmi = 1 THEN 1000 ELSE 1
\* the literal channel tag 'W1'
W1 == <<87, 49>>

\* ------------------------------------------------------------------------
\* step3: calculate_differences, create_numeric_15_3, expand_and_format
\* ------------------------------------------------------------------------
\* Decimal(values[i] - values[i-1]) / Decimal(100), quantized to 0.001: in
\* thousandths, ten times the difference of the readings
calculate_differences(values) ==
    [i \in 1..(NSlots - 1) |->
        IF values[i] # HASH /\ values[i - 1] # HASH
        THEN 10 * (values[i] - values[i - 1])
        ELSE HASH]

RECURSIVE SumFrom(_, _)
SumFrom(differences, i) ==
    IF i > Len(differences) THEN 0
    ELSE (IF differences[i] # HASH THEN differences[i] ELSE 0) + SumFrom(differences, i + 1)

\* sum(d for d in differences if d != '#')
sum_of_differences(differences) == SumFrom(differences, 1)

\* max((v for v in values if v != '#' and v is not None), default=0)
max_reading(values) == IF NonHashSlots(values) = {} THEN 0 ELSE MaxValue(values)

\* quantize(Decimal('0.001'), rounding=ROUND_HALF_UP) of num/den thousandths
RoundHalfUp(num, den) == (2 * num + den) \div (2 * den)

\* offset_usage / 1000 + int(max_reading) / (litter_factor / 1000), in thousandths
offset_plus_max_reading(nmi, values) ==
    Offset_usage(nmi) + RoundHalfUp(max_reading(values) * 1000000, litter_factor(nmi))

\* A status taken from the filled time points alone.
DayFlagFromFilledTimes(is_full_day_filled, filled_times) ==
    IF Len(filled_times) = 0 THEN "A" ELSE "V"

\* the status written into the 300 record
DayFlag(is_full_day_filled, filled_times) ==
    IF is_full_day_filled THEN "N"
    ELSE IF Len(filled_times) = 0 THEN "A" ELSE "V"

\* Marks that take the interval before the filled one as well.
FilledMarksThree(filled_times) ==
    LET ft == {filled_times[k] : k \in DOMAIN filled_times}
    IN  {i \in 1..(NSlots - 1) :
            \/ (i = 1 /\ 0 \in ft)
            \/ (i = 96 /\ 96 \in ft)
            \/ \E f \in ft : 0 < f /\ f < NSlots - 1 /\ i \in {f - 1, f, f + 1}}

\* time_slot_indices: the intervals marked for the filled time points
FilledMarks(filled_times) ==
    LET ft == {filled_times[k] : k \in DOMAIN filled_times}
    IN  {i \in 1..(NSlots - 1) :
            \/ (i = 1 /\ 0 \in ft)
            \/ (i \in ft /\ 0 < i /\ i < NSlots - 1)
            \/ (i - 1 \in ft /\ 0 < i - 1 /\ i - 1 < NSlots - 1)
            \/ (i = 96 /\ 96 \in ft)}

\* merge_time_slots(indices, label): the maximal runs of consecutive indices
\* as (start, end, label), in increasing order
RECURSIVE RunsFrom(_, _, _)
RunsFrom(indices, label, starts) ==
    IF starts = {} THEN << >>
    ELSE LET start == Min(starts)
             end == Min({e \in indices : e >= start /\ (e + 1) \notin indices})
         IN  <<<<start, end, label>>>> \o RunsFrom(indices, label, starts \ {start})

merge_time_slots(indices, label) ==
    RunsFrom(indices, label, {i \in indices : (i - 1) \notin indices})

\* sorted(combined_time_slots, key=lambda x: x[0]) of the F runs then the A runs
RECURSIVE SortByStart(_, _)
SortByStart(f, a) ==
    IF f = << >> THEN a
    ELSE IF a = << >> THEN f
    ELSE IF f[1][1] <= a[1][1]
         THEN <<f[1]>> \o SortByStart(Tail(f), a)
         ELSE <<a[1]>> \o SortByStart(f, Tail(a))

\* The merged, sorted segments with none of them removed.
combined_time_slots_all(filled_times) ==
    LET marks == FilledMarks(filled_times)
    IN  SortByStart(merge_time_slots(marks, "F"),
                    merge_time_slots((1..(NSlots - 1)) \ marks, "A"))

\* the (start, end, label) triples that become 400 rows of a V block
combined_time_slots(filled_times) ==
    LET marks == FilledMarks(filled_times)
        sorted == SortByStart(merge_time_slots(marks, "F"),
                              merge_time_slots((1..(NSlots - 1)) \ marks, "A"))
        kept == SelectSeq(sorted, LAMBDA slot : slot # <<96, 96, "A">>)
    IN  IF kept = << <<1, 96, "A">> >> \/ kept = << <<1, 96, "F">> >>
        THEN << >>
        ELSE kept

Row200(nmi) == [t |-> "200", nmi |-> NmiText(nmi), serial |-> HWMETERNO(nmi)]
Row300(day, differences, flag) ==
    [t |-> "300", date |-> day, values |-> differences, flag |-> flag]
Row400(slot) == [t |-> "400", start |-> slot[1], end |-> slot[2], label |-> slot[3]]
Row610(nmi, day, day_total, total) ==
    [t |-> "610", nmi |-> NmiText(nmi), serial |-> HWMETERNO(nmi), date |-> day,
     tag |-> W1, day_total |-> day_total, total |-> total]
Row710(nmi, day, total) ==
    [t |-> "710", nmi |-> NmiText(nmi), serial |-> HWMETERNO(nmi), date |-> day,
     tag |-> W1, total |-> total]

\* one turn of `for index, row in df.iterrows()`: the rows of one meter
FormatMeter(nmi, day, values, filled_times, is_full_day_filled) ==
    LET differences == calculate_differences(values)
        flag == DayFlag(is_full_day_filled, filled_times)
        total == offset_plus_max_reading(nmi, values)
        rows400 == IF flag = "V"
                   THEN LET c == combined_time_slots(filled_times)
                        IN  [k \in DOMAIN c |-> Row400(c[k])]
                   ELSE << >>
    IN  <<Row200(nmi), Row300(day, differences, flag)>> \o rows400 \o
        <<Row610(nmi, day, sum_of_differences(differences), total),
          Row710(nmi, day, total)>>

RECURSIVE FormatMeters(_, _, _, _, _)
FormatMeters(order, k, day, data, full) ==
    IF k > Len(order) THEN << >>
    ELSE LET nmi == order[k]
             r == interpolate_missing_values(data[nmi][day])
         IN  FormatMeter(nmi, day, r.values, r.filled_times, day \in full[nmi]) \o
             FormatMeters(order, k + 1, day, data, full)

\* expand_and_format and save_to_csv for one day: header, blocks, footer
expand_and_format(order, day, data, full) ==
    <<[t |-> "100"]>> \o FormatMeters(order, 1, day, data, full) \o <<[t |-> "900"]>>


\* ------------------------------------------------------------------------
\* Text helpers for the lines of a file
\* ------------------------------------------------------------------------
\* Python's `a in b` on strings
IsInfix(a, b) ==
    \E i \in 0..(Len(b) - Len(a)) : SubSeq(b, i + 1, i + Len(a)) = a

\* string order, as sorted() uses it on meter serials
RECURSIVE LexLess(_, _)
LexLess(a, b) ==
    IF b = << >> THEN FALSE
    ELSE IF a = << >> THEN TRUE
    ELSE IF a[1] # b[1] THEN a[1] < b[1]
    ELSE LexLess(Tail(a), Tail(b))

\* The letters of a 610 line: "610", the NMI, the serial and the channel tag,
\* with their commas.  The date and the amounts are digits and '.', which no
\* serial of the mapping (a letter first) reaches into.
LineText610(line) ==
    <<54, 49, 48, 44>> \o line.nmi \o <<44>> \o line.serial \o <<44>> \o line.tag

\* `line.startswith("610") and meter_serial in line`
Is610Of(line, meter_serial) ==
    line.t = "610" /\ IsInfix(meter_serial, LineText610(line))

\* `for j in range(idx - 1, -1, -1)` of step4 and step5: the 300 line found
\* going up over 400 lines only, 0 if another line is met first
RECURSIVE Find300Above(_, _)
Find300Above(lines, j) ==
    IF j < 1 THEN 0
    ELSE IF lines[j].t = "300" THEN j
    ELSE IF lines[j].t # "400" THEN 0
    ELSE Find300Above(lines, j - 1)

\* the same walk in step6, which does not stop at other lines
Nearest300Above(lines, i) ==
    LET c == {j \in 1..(i - 1) : lines[j].t = "300"}
    IN  IF c = {} THEN 0 ELSE Max(c)

\* first line of type t after line i, 0 if there is none
FirstAfter(lines, i, t) ==
    LET c == {k \in DOMAIN lines : k > i /\ lines[k].t = t}
    IN  IF c = {} THEN 0 ELSE Min(c)

\* sorted(..., key=(meter_serial, file_date)); the sort is stable, and
\* records of one meter and date were appended in the order of their triggers
RecordBefore(a, b) ==
    \/ LexLess(a.meter_serial, b.meter_serial)
    \/ (a.meter_serial = b.meter_serial /\ a.file_date < b.file_date)
    \/ (a.meter_serial = b.meter_serial /\ a.file_date = b.file_date
        /\ a.trigger_date < b.trigger_date)

RECURSIVE SortRecords(_)
SortRecords(S) ==
    IF S = {} THEN << >>
    ELSE LET first == CHOOSE a \in S : \A b \in S \ {a} : RecordBefore(a, b)
         IN  <<first>> \o SortRecords(S \ {first})

\* ------------------------------------------------------------------------
\* step4: extract_meter_data, process_nem12_files, backtrack_meter_data
\* ------------------------------------------------------------------------
\* meter_data: serial -> its 300 line; a later 610 line of the same serial
\* overwrites the entry of an earlier one
extract_meter_data(lines) ==
    LET found == {i \in DOMAIN lines : lines[i].t = "610" /\ Find300Above(lines, i - 1) # 0}
        serials == {lines[i].serial : i \in found}
    IN  [ser \in serials |->
            lines[Find300Above(lines, Max({i \in found : lines[i].serial = ser}) - 1)]]

\* all_meter_data, as a set: one record per (serial, file)
process_nem12_files(folder) ==
    UNION {
        LET md == extract_meter_data(folder[day])
        IN  {[meter_serial |-> ser, file_date |-> day, line |-> md[ser],
              status |-> md[ser].flag] : ser \in DOMAIN md}
        : day \in DOMAIN folder }

\* the N records that `for j in range(i - 1, -1, -1)` collects below a record
\* of status A or V: those dated after the last non-N record before it
BacktrackedFor(meter_records, rec) ==
    LET earlier == {r \in meter_records : r.file_date < rec.file_date}
        stops == {r.file_date : r \in {q \in earlier : q.status # "N"}}
        stop == IF stops = {} THEN 0 ELSE Max(stops)
    IN  {r \in earlier : r.file_date > stop}

\* A backtrack that does not stop at the first non-N record.
backtrack_no_stop(data) ==
    LET RunOf(rec) == {r \in data : r.meter_serial = rec.meter_serial
                                    /\ r.file_date < rec.file_date /\ r.status = "N"}
        Tag(r, trigger) == [meter_serial |-> r.meter_serial, file_date |-> r.file_date,
                            line |-> r.line, status |-> r.status, trigger_date |-> trigger]
    IN  SortRecords(UNION {
            IF rec.status \in {"A", "V"} /\ RunOf(rec) # {}
            THEN {Tag(r, rec.file_date) : r \in RunOf(rec) \cup {rec}}
            ELSE {}
            : rec \in data })

\* results: every N run with the A/V record that follows it, each record
\* tagged with that record's date as trigger_date, sorted by (serial, date)
backtrack_meter_data(data) ==
    LET RunOf(rec) == BacktrackedFor({r \in data : r.meter_serial = rec.meter_serial}, rec)
        Tag(r, trigger) == [meter_serial |-> r.meter_serial, file_date |-> r.file_date,
                            line |-> r.line, status |-> r.status, trigger_date |-> trigger]
    IN  SortRecords(UNION {
            IF rec.status \in {"A", "V"} /\ RunOf(rec) # {}
            THEN {Tag(r, rec.file_date) : r \in RunOf(rec) \cup {rec}}
            ELSE {}
            : rec \in data })

\* ------------------------------------------------------------------------
\* step5: update_flag_to_f, insert_trigger_data, modify_300_and_610
\* ------------------------------------------------------------------------
\* A line inserted with the flag it had.
flag_unchanged(line) == line

update_flag_to_f(line) ==
    IF line.flag = "N" THEN [line EXCEPT !.flag = "F"] ELSE line

\* grouped_data.items(): the (serial, trigger_date) keys in the order of
\* their first record
RECURSIVE GroupKeys(_, _, _)
GroupKeys(records, k, keys) ==
    IF k > Len(records) THEN keys
    ELSE LET key == <<records[k].meter_serial, records[k].trigger_date>>
         IN  GroupKeys(records, k + 1,
                       IF \E n \in DOMAIN keys : keys[n] = key THEN keys
                       ELSE Append(keys, key))

\* The position right above the 610 line.
InsertionIndexAbove610(lines, idx) == idx

\* insertion_index: the position of the 300 line found above the 610 line
InsertionIndex(lines, idx) == Find300Above(lines, idx - 1)

\* One group of insert_trigger_data.  The lines to insert are the same at
\* every 610 line tried, so the group is decided at the first 610 line of
\* the serial that has a 300 line above it.
InsertGroup(folder, records, key) ==
    LET meter_serial == key[1]
        trigger_date == key[2]
        mine == SelectSeq(records, LAMBDA rec : rec.meter_serial = meter_serial
                                               /\ rec.trigger_date = trigger_date)
        picked == SelectSeq(mine, LAMBDA rec : rec.file_date # trigger_date)
        insertion_lines == [k \in DOMAIN picked |-> update_flag_to_f(picked[k].line)]
    IN  IF trigger_date \notin DOMAIN folder THEN folder
        ELSE LET lines == folder[trigger_date]
                 hits == {i \in DOMAIN lines : Is610Of(lines[i], meter_serial)
                                               /\ Find300Above(lines, i - 1) # 0}
             IN  IF hits = {} \/ insertion_lines = << >> THEN folder
                 ELSE LET at == InsertionIndex(lines, Min(hits))
                      IN  [folder EXCEPT ![trigger_date] =
                              SubSeq(lines, 1, at - 1) \o insertion_lines \o
                              SubSeq(lines, at, Len(lines))]

RECURSIVE InsertGroups(_, _, _, _)
InsertGroups(folder, records, keys, k) ==
    IF k > Len(keys) THEN folder
    ELSE InsertGroups(InsertGroup(folder, records, keys[k]), records, keys, k + 1)

insert_trigger_data(folder, records) ==
    InsertGroups(folder, records, GroupKeys(records, 1, << >>), 1)

\* A line left with the values it has.
KeepValues(line) == line

\* parts[2:98] = ["0.000"] * 96
ZeroValues(line) == [line EXCEPT !.values = [i \in 1..(NSlots - 1) |-> 0]]

\* every N-flagged 300 line gets 96 zeros, and the first 610 line after it
\* gets 0.000 in the field after 'W1' (the day total; no NMI or serial of
\* the mapping is 'W1')
modify_300_and_610(lines) ==
    LET n300 == {i \in DOMAIN lines : lines[i].t = "300" /\ lines[i].flag = "N"}
        n610 == {FirstAfter(lines, i, "610") : i \in n300} \ {0}
    IN  [i \in DOMAIN lines |->
            IF i \in n300 THEN ZeroValues(lines[i])
            ELSE IF i \in n610 THEN [lines[i] EXCEPT !.day_total = 0]
            ELSE lines[i]]

\* process_all_files
process_all_files(folder) == [day \in DOMAIN folder |-> modify_300_and_610(folder[day])]

\* ------------------------------------------------------------------------
\* step6: find_previous_valid_610, count_n_flags_with_backtracking,
\*        modify_csv_files
\* ------------------------------------------------------------------------
\* float(last_value) followed by f"{value:.3f}": a total has at most 15
\* digits (create_numeric_15_3), which a double carries through unchanged
float_3f(total) == total

NoPrevious == [found |-> FALSE, value |-> 0, date |-> 0]

\* prev_files is the list of earlier file days, nearest first
RECURSIVE find_previous_valid_610(_, _, _, _)
find_previous_valid_610(folder, file_lines, meter_serial, prev_files) ==
    LET hits == {i \in DOMAIN file_lines : Is610Of(file_lines[i], meter_serial)
                                           /\ Nearest300Above(file_lines, i) # 0}
    IN  IF hits = {} THEN NoPrevious
        ELSE LET i == Min(hits)
                 j == Nearest300Above(file_lines, i)
             IN  IF file_lines[j].flag = "N"
                 THEN IF prev_files = << >> THEN NoPrevious
                      ELSE find_previous_valid_610(folder, folder[Head(prev_files)],
                                                   meter_serial, Tail(prev_files))
                 ELSE [found |-> TRUE, value |-> file_lines[i].total,
                       date |-> file_lines[j].date]

\* files[:i][::-1]
EarlierFiles(day) == [k \in 1..(day - 1) |-> day - k]

\* meter_dict of one file: an entry per serial, in the order of the N-flagged
\* 300 lines
RECURSIVE CountFile(_, _, _, _)
CountFile(folder, day, j, entries) ==
    LET current_lines == folder[day]
    IN  IF j > Len(current_lines) THEN entries
        ELSE IF current_lines[j].t = "300" /\ current_lines[j].flag = "N"
                /\ FirstAfter(current_lines, j, "610") # 0
        THEN LET k == FirstAfter(current_lines, j, "610")
                 meter_serial == current_lines[k].serial
                 result == find_previous_valid_610(folder, current_lines, meter_serial,
                                                   EarlierFiles(day))
             IN  IF \E n \in DOMAIN entries : entries[n].meter_serial = meter_serial
                 THEN CountFile(folder, day, j + 1, entries)
                 ELSE CountFile(folder, day, j + 1,
                                Append(entries, [meter_serial |-> meter_serial,
                                                 current_value |-> current_lines[k].total,
                                                 previous |-> result]))
        ELSE CountFile(folder, day, j + 1, entries)

count_n_flags_with_backtracking(folder) ==
    [day \in DOMAIN folder |-> CountFile(folder, day, 1, << >>)]

\* parts_710[-1] = f"{previous_value['value']:.3f}" is outside the `if
\* previous_value ...`: with previous None it raises at the first 610 line of
\* the serial that has a 710 line after it
Raises710(lines, entry) ==
    /\ ~entry.previous.found
    /\ \E i \in DOMAIN lines :
           Is610Of(lines[i], entry.meter_serial) /\ FirstAfter(lines, i, "710") # 0

\* An update that writes the previous value into the 610 lines only.
ApplyEntry610Only(lines, entry) ==
    LET hits == {i \in DOMAIN lines : Is610Of(lines[i], entry.meter_serial)}
    IN  IF ~entry.previous.found THEN lines
        ELSE [i \in DOMAIN lines |->
                 IF i \in hits
                 THEN [lines[i] EXCEPT !.total = float_3f(entry.previous.value)]
                 ELSE lines[i]]

\* `for meter_serial, values in file_meter_dict.items()` for one entry that
\* does not raise
ApplyEntry(lines, entry) ==
    LET hits == {i \in DOMAIN lines : Is610Of(lines[i], entry.meter_serial)}
        hits710 == {FirstAfter(lines, i, "710") : i \in hits} \ {0}
    IN  IF ~entry.previous.found THEN lines
        ELSE [i \in DOMAIN lines |->
                 IF i \in hits \cup hits710
                 THEN [lines[i] EXCEPT !.total = float_3f(entry.previous.value)]
                 ELSE lines[i]]

RECURSIVE ModifyLines(_, _, _)
ModifyLines(lines, entries, k) ==
    IF k > Len(entries) THEN [lines |-> lines, raised |-> FALSE]
    ELSE IF Raises710(lines, entries[k]) THEN [lines |-> lines, raised |-> TRUE]
    ELSE ModifyLines(ApplyEntry(lines, entries[k]), entries, k + 1)

\* `for current_file, file_meter_dict in meter_dict.items()`: a file is
\* written after all its entries; an exception leaves it and the later files
\* as they were
RECURSIVE modify_csv_files(_, _, _)
modify_csv_files(folder, meter_dict, day) ==
    IF day \notin DOMAIN folder THEN [folder |-> folder, raised |-> FALSE]
    ELSE LET r == ModifyLines(folder[day], meter_dict[day], 1)
         IN  IF r.raised THEN [folder |-> folder, raised |-> TRUE]
             ELSE modify_csv_files([folder EXCEPT ![day] = r.lines], meter_dict, day + 1)

\* ------------------------------------------------------------------------
\* State
\* ------------------------------------------------------------------------
VARIABLES
    pc,                 \* how far the run has come
    built,              \* the grids as the Daily Table Builder stored them
    meter_data_by_day,  \* nmi -> day -> grid, mutated by estimate_missing_days
    full_day_filled,    \* nmi -> days flagged by estimate_missing_days
    NMI12,              \* data_merged/NMI12: file day -> lines
    backtracked,        \* output_meter_data_backtracked_sorted.csv
    NMI12_modified,     \* data_merged/NMI12_modified: file day -> lines
    step6_raised,       \* step6_main ended in an exception
    nmi_order,          \* list(all_nmis): the order the set is iterated in
    messages,           \* messages_df: the reading events, in input order
    df,                 \* the day table of the formatting loop: nmi -> values
    filled_timepoints,  \* nmi -> filled_times of the day being formatted
    step3_raised,       \* step3_main ended in an exception
    todo,               \* the file operations the running step has still to do
    opened,             \* the file of the first of them is open for writing
    writes,             \* file day -> times the reconciled file was rewritten
    runs,               \* how many times reconciliation was started
    cache,              \* _CACHE: key -> entry
    now,                \* time.time()
    db,                 \* keys that <schema>.meter_serial_mapping has a row for
    last_lookup         \* what the last fill_from_mapping met and did

vars == <<pc, built, meter_data_by_day, full_day_filled, NMI12, backtracked,
          NMI12_modified, step6_raised, nmi_order, messages, df, filled_timepoints,
          step3_raised, todo, opened, writes, runs, cache, now, db, last_lookup,
          mapping_file>>

\* the variables that only the generation stage writes
gen_vars == <<messages, df, filled_timepoints, step3_raised>>

\* the variables of the file operations of reconciliation
io_vars == <<todo, opened, writes, runs>>

\* the variables of the mapping lookup
cache_vars == <<cache, now, db, last_lookup>>

\* what the generation and the step-by-step reconciliation leave alone
aux_vars == <<io_vars, cache_vars, mapping_file>>

\* no file is open for writing
NotOpen == [folder |-> "", day |-> NoDay, before |-> << >>, lines |-> << >>]

\* no file operation is pending and no lookup was made
IoIdle == todo = << >> /\ opened = NotOpen /\ writes = << >> /\ runs = 0
CacheIdle == cache = << >> /\ now = 0 /\ db = {} /\ last_lookup = << >>

\* ------------------------------------------------------------------------
\* The Full-Day Estimator on its own: one meter, NEstDays grid days
\* ------------------------------------------------------------------------
EstLevels == {500, 560, 620}

\* a day of readings that starts at lo and ends at hi
StepGrid(lo, hi) == [j \in Slots |-> IF j < 48 THEN lo ELSE hi]

EstGrids == {FlatGrid(HASH)} \cup
            {StepGrid(p[1], p[2]) : p \in {q \in EstLevels \X EstLevels : q[1] <= q[2]}}

InitEst ==
    /\ pc = "built"
    /\ built \in [{1} -> [1..NEstDays -> EstGrids]]
    /\ meter_data_by_day = built
    /\ full_day_filled = [nmi \in {1} |-> {}]
    /\ NMI12 = << >>
    /\ backtracked = << >>
    /\ NMI12_modified = << >>
    /\ step6_raised = FALSE
    /\ nmi_order = <<1>>
    /\ messages = << >>
    /\ df = << >>
    /\ filled_timepoints = << >>
    /\ step3_raised = FALSE
    /\ IoIdle
    /\ CacheIdle
    /\ mapping_file = "distinct"

\* meter_data_by_day, full_day_filled, _ = estimate_missing_days(meter_data_by_day)
EstimateMissingDays ==
    /\ pc = "built"
    /\ LET r == EstimateAll(meter_data_by_day)
       IN  /\ meter_data_by_day' = [nmi \in DOMAIN r |-> r[nmi].data]
           /\ full_day_filled' = [nmi \in DOMAIN r |-> r[nmi].full_day_filled]
    /\ pc' = "estimated"
    /\ UNCHANGED <<built, NMI12, backtracked, NMI12_modified, step6_raised, nmi_order>>
    /\ UNCHANGED gen_vars
    /\ UNCHANGED aux_vars

NextEst == EstimateMissingDays

SpecEst == InitEst /\ [][NextEst]_vars

\* ------------------------------------------------------------------------
\* The Intraday Interpolator on its own: one meter, one day
\* ------------------------------------------------------------------------
\* the slots that may hold a reading in a sparse day
KeySlots == {0, 2, 5, 6, 94, 96}

InterpLevels == {100, 125, 130}

\* a day whose other slots all hold a reading (dense) or none (sparse)
RowGrid(present, level, dense) ==
    [j \in Slots |->
        IF j \in KeySlots THEN (IF j \in present THEN level[j] ELSE HASH)
        ELSE IF dense THEN 100 + j ELSE HASH]

\* the day as estimate_missing_days left it: a received grid, not flagged,
\* or a grid it synthesized, flagged
InitInterp ==
    /\ pc = "row"
    /\ \/ /\ \E present \in SUBSET KeySlots, dense \in BOOLEAN :
                  \E level \in [present -> InterpLevels] :
                      meter_data_by_day =
                          [nmi \in {1} |-> [day \in {1} |-> RowGrid(present, level, dense)]]
          /\ full_day_filled = [nmi \in {1} |-> {}]
       \/ /\ \E g \in {FlatGrid(500), SynthGrid(500, 20)} :
                  meter_data_by_day = [nmi \in {1} |-> [day \in {1} |-> g]]
          /\ full_day_filled = [nmi \in {1} |-> {1}]
    /\ built = meter_data_by_day
    /\ NMI12 = << >>
    /\ backtracked = << >>
    /\ NMI12_modified = << >>
    /\ step6_raised = FALSE
    /\ nmi_order = <<1>>
    /\ messages = << >>
    /\ df = << >>
    /\ filled_timepoints = << >>
    /\ step3_raised = FALSE
    /\ IoIdle
    /\ CacheIdle
    /\ mapping_file = "distinct"

\* one turn of `for nmi in df.index` of generate_daily_tables: the row is
\* interpolated and stored with its filled_times
InterpolateRow ==
    /\ pc = "row"
    /\ LET r == [nmi \in DOMAIN meter_data_by_day |->
                    interpolate_missing_values(meter_data_by_day[nmi][1])]
       IN  /\ df' = [nmi \in DOMAIN r |-> r[nmi].values]
           /\ filled_timepoints' = [nmi \in DOMAIN r |-> r[nmi].filled_times]
    /\ pc' = "interpolated"
    /\ UNCHANGED <<built, meter_data_by_day, full_day_filled, NMI12, backtracked,
                   NMI12_modified, step6_raised, nmi_order, messages, step3_raised>>
    /\ UNCHANGED aux_vars

\* expand_and_format and save_to_csv on the interpolated day table
FormatDay ==
    /\ pc = "interpolated"
    /\ NMI12' = [day \in {1} |->
                    <<[t |-> "100"]>> \o
                    FormatMeter(1, day, df[1], filled_timepoints[1], day \in full_day_filled[1])
                    \o <<[t |-> "900"]>>]
    /\ pc' = "formatted"
    /\ UNCHANGED <<built, meter_data_by_day, full_day_filled, backtracked, NMI12_modified,
                   step6_raised, nmi_order, messages, df, filled_timepoints, step3_raised>>
    /\ UNCHANGED aux_vars

NextInterp == InterpolateRow \/ FormatDay

SpecInterp == InitInterp /\ [][NextInterp]_vars

\* ------------------------------------------------------------------------
\* The pipeline: generate (step3), then reconcile (step4, step5, step6)
\* ------------------------------------------------------------------------
\* the builder makes a grid for the file days and for the day after them
GridDays == 1..(NFiles + 1)
FileDays == 1..NFiles

\* the register of a meter that advances by one unit every 15 minutes
Reading(day, j) == 100 + 96 * (day - 1) + j

\* slots of a partly received day that have no reading
GapSlots == {0, 50, 51, 96}

\* the grid of a day with no reading (M), with a reading at every slot (A),
\* or with readings at all slots but GapSlots (V)
KindGrid(day, kind) ==
    [j \in Slots |->
        IF kind = "M" \/ (kind = "V" /\ j \in GapSlots) THEN HASH ELSE Reading(day, j)]

\* Meter 1 is drawn over all grid days from the three kinds; meter 2 is
\* drawn over its first three days from M and A and has readings afterwards.
Kinds1 == [GridDays -> {"M", "A", "V"}]
Kinds2 == [{1, 2, 3} -> {"M", "A"}]

InputGrids(k1, k2) ==
    [nmi \in Meters |->
        [day \in GridDays |->
            KindGrid(day, IF nmi = 1 THEN k1[day]
                          ELSE IF day \in DOMAIN k2 THEN k2[day] ELSE "A")]]

Orders == {o \in [1..Cardinality(Meters) -> Meters] :
              \A a, b \in DOMAIN o : a # b => o[a] # o[b]}

Init ==
    /\ pc = "start"
    /\ \E k1 \in Kinds1, k2 \in Kinds2 : built = InputGrids(k1, k2)
    /\ meter_data_by_day = built
    /\ full_day_filled = [nmi \in Meters |-> {}]
    /\ nmi_order \in Orders
    /\ NMI12 = << >>
    /\ backtracked = << >>
    /\ NMI12_modified = << >>
    /\ step6_raised = FALSE
    /\ messages = << >>
    /\ df = << >>
    /\ filled_timepoints = << >>
    /\ step3_raised = FALSE
    /\ IoIdle
    /\ CacheIdle
    /\ mapping_file = "distinct"

\* step3_main: generate_daily_tables from estimate_missing_days on
Step3 ==
    /\ pc = "start"
    /\ LET r == EstimateAll(meter_data_by_day)
       IN  /\ meter_data_by_day' = [nmi \in DOMAIN r |-> r[nmi].data]
           /\ full_day_filled' = [nmi \in DOMAIN r |-> r[nmi].full_day_filled]
    /\ NMI12' = [day \in FileDays |->
                    expand_and_format(nmi_order, day, meter_data_by_day', full_day_filled')]
    /\ pc' = "generated"
    /\ UNCHANGED <<built, backtracked, NMI12_modified, step6_raised, nmi_order>>
    /\ UNCHANGED gen_vars
    /\ UNCHANGED aux_vars

\* step4_main
Step4 ==
    /\ pc = "generated"
    /\ backtracked' = backtrack_meter_data(process_nem12_files(NMI12))
    /\ pc' = "scanned"
    /\ UNCHANGED <<built, meter_data_by_day, full_day_filled, NMI12, NMI12_modified,
                   step6_raised, nmi_order>>
    /\ UNCHANGED gen_vars
    /\ UNCHANGED aux_vars

\* step5_main: copy_folder, insert_trigger_data, process_all_files
Step5 ==
    /\ pc = "scanned"
    /\ NMI12_modified' = process_all_files(insert_trigger_data(NMI12, backtracked))
    /\ pc' = "overlaid"
    /\ UNCHANGED <<built, meter_data_by_day, full_day_filled, NMI12, backtracked,
                   step6_raised, nmi_order>>
    /\ UNCHANGED gen_vars
    /\ UNCHANGED aux_vars

\* step6_main; master_main logs an exception of the step and goes on
Step6 ==
    /\ pc = "overlaid"
    /\ LET meter_dict == count_n_flags_with_backtracking(NMI12_modified)
           r == modify_csv_files(NMI12_modified, meter_dict, 1)
       IN  /\ NMI12_modified' = r.folder
           /\ step6_raised' = r.raised
    /\ pc' = "done"
    /\ UNCHANGED <<built, meter_data_by_day, full_day_filled, NMI12, backtracked, nmi_order>>
    /\ UNCHANGED gen_vars
    /\ UNCHANGED aux_vars

Next == Step3 \/ Step4 \/ Step5 \/ Step6

Spec == Init /\ [][Next]_vars

\* ------------------------------------------------------------------------
\* step3: the daily table builder of generate_daily_tables
\* ------------------------------------------------------------------------
\* Instants are seconds since start_time, the 00:00:00 of grid day 1.
\* timedelta(days=1)
DaySeconds == 86400
\* freq="15min"
SlotSeconds == 900

Abs(x) == IF x < 0 THEN 0 - x ELSE x

DayStart(day) == (day - 1) * DaySeconds

\* A date_range that leaves the end instant out.
time_slots_open(current_day) ==
    [j \in 0..((DaySeconds \div SlotSeconds) - 1) |-> DayStart(current_day) + j * SlotSeconds]

\* time_slots = pd.date_range(start=current_day, end=next_day, freq="15min")
time_slots(current_day) ==
    [j \in 0..(DaySeconds \div SlotSeconds) |-> DayStart(current_day) + j * SlotSeconds]

\* day_data: the rows with current_day <= timestamp <= next_day, in input order
day_data(rows, current_day) ==
    SelectSeq(rows, LAMBDA row : /\ row.timestamp >= DayStart(current_day)
                                 /\ row.timestamp <= DayStart(current_day + 1))

\* The last of the slots at the smallest distance.
nearest_time_slot_last(slots, timestamp) ==
    LET m == Min({Abs(slots[j] - timestamp) : j \in DOMAIN slots})
    IN  Max({j \in DOMAIN slots : Abs(slots[j] - timestamp) = m})

\* min(time_slots, key=lambda t: abs(t - timestamp)): the column of the first
\* slot at the smallest distance
nearest_time_slot(slots, timestamp) ==
    LET m == Min({Abs(slots[j] - timestamp) : j \in DOMAIN slots})
    IN  Min({j \in DOMAIN slots : Abs(slots[j] - timestamp) = m})

\* `for _, row in day_data.iterrows()`: df.loc[nmi, nearest_time_slot] = reading
\* for the rows whose nmi is in all_nmis
RECURSIVE FillReadings(_, _, _, _)
FillReadings(table, rows, k, slots) ==
    IF k > Len(rows) THEN table
    ELSE LET nmi == rows[k].nmi
         IN  FillReadings(
                 IF nmi \in Meters
                 THEN [table EXCEPT ![nmi][nearest_time_slot(slots, rows[k].timestamp)] =
                                        rows[k].reading]
                 ELSE table,
                 rows, k + 1, slots)

\* one turn of `while current_day <= end_time`: the day table, nmi -> values
BuildDay(rows, current_day) ==
    LET slots == time_slots(current_day)
        empty == [nmi \in Meters |-> [j \in DOMAIN slots |-> HASH]]
    IN  FillReadings(empty, day_data(rows, current_day), 1, slots)

\* meter_data_by_day[nmi][current_day] = df.loc[nmi].tolist(), for every grid day
BuildTables(rows) ==
    LET tables == [day \in GridDays |-> BuildDay(rows, day)]
    IN  [nmi \in Meters |-> [day \in GridDays |-> tables[day][nmi]]]

\* ------------------------------------------------------------------------
\* step3: the errors of expand_and_format and the file loop that meets them
\* ------------------------------------------------------------------------
\* the decimal digits of n >= 0, most significant first
RECURSIVE Digits(_)
Digits(n) == IF n < 10 THEN <<n>> ELSE Append(Digits(n \div 10), n % 10)

Zeros(k) == [i \in 1..k |-> 0]

RECURSIVE AddFrom(_, _, _, _)
AddFrom(a, b, i, carry) ==
    IF i = 0 THEN (IF carry = 0 THEN << >> ELSE <<carry>>)
    ELSE LET sum == a[i] + b[i] + carry
         IN  Append(AddFrom(a, b, i - 1, sum \div 10), sum % 10)

\* the digits of the sum of two numbers given by their digits
AddDigits(a, b) ==
    LET n == Max({Len(a), Len(b)})
    IN  AddFrom(Zeros(n - Len(a)) \o a, Zeros(n - Len(b)) \o b, n, 0)

\* offset_usage / 1000 + int(max_reading) / max_reading_factor in thousandths,
\* as digits; litter_factor is a power of ten, so the quotient is a shift
TotalDigits(nmi, values) ==
    LET reading == max_reading(values)
        shift == Len(Digits(1000000 \div litter_factor(nmi))) - 1
    IN  AddDigits(Digits(Offset_usage(nmi)),
                  IF reading = 0 THEN <<0>> ELSE Digits(reading) \o Zeros(shift))

\* len(str(decimal_value).replace('.', '').replace('-', '')) of a value with
\* three decimals
NumericLength(digits) == IF Len(digits) < 4 THEN 4 ELSE Len(digits)

\* create_numeric_15_3 fails: the quantized value has more than 15 digits
Exceeds15Digits(nmi, values) == NumericLength(TotalDigits(nmi, values)) > 15

\* get_litter_factor_by_nmi fails: `if row.empty: raise ValueError`
NotInMappingFile(nmi) == nmi \notin Meters

\* the 610 step of one meter block raises
RowRaises(nmi, values) == NotInMappingFile(nmi) \/ Exceeds15Digits(nmi, values)

\* the interpolation loop of one file day: nmi -> values and filled_times
InterpolatedDay(order, day, data) ==
    [nmi \in {order[k] : k \in DOMAIN order} |-> interpolate_missing_values(data[nmi][day])]

\* expand_and_format raises on the day table
DayRaises(order, day, data) ==
    \E k \in DOMAIN order : RowRaises(order[k], InterpolatedDay(order, day, data)[order[k]].values)

\* `# Generate daily files`: the loop writes one file a day and ends at the
\* first day whose formatting raises
GenerateFiles ==
    /\ pc = "estimated"
    /\ LET bad == {day \in FileDays : DayRaises(nmi_order, day, meter_data_by_day)}
           last == IF bad = {} THEN NFiles ELSE Min(bad)
           table == InterpolatedDay(nmi_order, last, meter_data_by_day)
       IN  /\ NMI12' = [day \in 1..(IF bad = {} THEN last ELSE last - 1) |->
                           expand_and_format(nmi_order, day, meter_data_by_day,
                                             full_day_filled)]
           /\ df' = [nmi \in DOMAIN table |-> table[nmi].values]
           /\ filled_timepoints' = [nmi \in DOMAIN table |-> table[nmi].filled_times]
           /\ step3_raised' = (bad # {})
    /\ pc' = "generated"
    /\ UNCHANGED <<built, meter_data_by_day, full_day_filled, backtracked, NMI12_modified,
                   step6_raised, nmi_order, messages>>
    /\ UNCHANGED aux_vars

\* ------------------------------------------------------------------------
\* Generation from the reading events: build, estimate, write the files
\* ------------------------------------------------------------------------
\* number of reading events in the input
MaxEvents == 2

\* Meter 1 reports 1 s before, at and 1 s after the midpoint of its first
\* two slots, 5 minutes before the first midnight, at that midnight and in
\* the middle of day 3; meter 2 reports once, 5 minutes after the first
\* midnight, a register value of ten digits; meter 3 is not in the mapping.
EventChoices ==
    {[nmi |-> 1, timestamp |-> 449, reading |-> 100],
     [nmi |-> 1, timestamp |-> 450, reading |-> 200],
     [nmi |-> 1, timestamp |-> 451, reading |-> 100],
     [nmi |-> 1, timestamp |-> 86100, reading |-> 100],
     [nmi |-> 1, timestamp |-> 86400, reading |-> 200],
     [nmi |-> 1, timestamp |-> 217800, reading |-> 200],
     [nmi |-> 2, timestamp |-> 86700, reading |-> 1000000000],
     [nmi |-> 3, timestamp |-> 0, reading |-> 200]}

EventLists == UNION {[1..n -> EventChoices] : n \in 0..MaxEvents}

InitBuild ==
    /\ pc = "messages"
    /\ messages \in EventLists
    /\ built = << >>
    /\ meter_data_by_day = << >>
    /\ full_day_filled = << >>
    /\ nmi_order \in Orders
    /\ NMI12 = << >>
    /\ backtracked = << >>
    /\ NMI12_modified = << >>
    /\ step6_raised = FALSE
    /\ df = << >>
    /\ filled_timepoints = << >>
    /\ step3_raised = FALSE
    /\ IoIdle
    /\ CacheIdle
    /\ mapping_file = "distinct"

\* the `while current_day <= end_time` loop of generate_daily_tables
BuildDailyTables ==
    /\ pc = "messages"
    /\ built' = BuildTables(messages)
    /\ meter_data_by_day' = built'
    /\ pc' = "built"
    /\ UNCHANGED <<full_day_filled, NMI12, backtracked, NMI12_modified, step6_raised,
                   nmi_order>>
    /\ UNCHANGED gen_vars
    /\ UNCHANGED aux_vars

NextBuild == BuildDailyTables \/ EstimateMissingDays \/ GenerateFiles

SpecBuild == InitBuild /\ [][NextBuild]_vars

\* ------------------------------------------------------------------------
\* The master workflow from the reading events on: master_main runs its
\* steps in order and goes on to the next step when one raises
\* ------------------------------------------------------------------------
NextMaster ==
    \/ BuildDailyTables \/ EstimateMissingDays \/ GenerateFiles
    \/ Step4 \/ Step5 \/ Step6

SpecMaster == InitBuild /\ [][NextMaster]_vars

\* ------------------------------------------------------------------------
\* The row formatter on day tables of its own: the rows of the table may
\* name a meter that the mapping does not have
\* ------------------------------------------------------------------------
TableMeters == Meters \cup {3}

TableOrders ==
    UNION {{o \in [1..n -> TableMeters] : \A a, b \in 1..n : a # b => o[a] # o[b]} :
              n \in 1..Cardinality(TableMeters)}

InitFormat ==
    /\ pc = "estimated"
    /\ nmi_order \in TableOrders
    /\ \E k \in [GridDays -> {"A", "V"}] :
           meter_data_by_day =
               [nmi \in TableMeters |->
                   [day \in GridDays |-> KindGrid(day, IF nmi = 1 THEN k[day] ELSE "A")]]
    /\ built = meter_data_by_day
    /\ full_day_filled = [nmi \in TableMeters |-> {}]
    /\ NMI12 = << >>
    /\ backtracked = << >>
    /\ NMI12_modified = << >>
    /\ step6_raised = FALSE
    /\ messages = << >>
    /\ df = << >>
    /\ filled_timepoints = << >>
    /\ step3_raised = FALSE
    /\ IoIdle
    /\ CacheIdle
    /\ mapping_file = "distinct"

NextFormat == GenerateFiles

SpecFormat == InitFormat /\ [][NextFormat]_vars

\* ------------------------------------------------------------------------
\* Vocabulary of the reconciliation claims, over the files of a folder
\* ------------------------------------------------------------------------
\* the lines of a meter's block: from its 200 line up to the next 200 or 900
BlockOf(lines, nmi) ==
    LET s == CHOOSE i \in DOMAIN lines : lines[i].t = "200" /\ lines[i].nmi = NmiText(nmi)
        e == Min({k \in DOMAIN lines : k > s /\ lines[k].t \in {"200", "900"}})
    IN  SubSeq(lines, s, e - 1)

Line610(lines, nmi) ==
    LET b == BlockOf(lines, nmi) IN b[CHOOSE i \in DOMAIN b : b[i].t = "610"]

Line710(lines, nmi) ==
    LET b == BlockOf(lines, nmi) IN b[CHOOSE i \in DOMAIN b : b[i].t = "710"]

\* the 300 record of the day itself in the day's file
Own300(folder, nmi, day) ==
    LET b == BlockOf(folder[day], nmi)
    IN  b[CHOOSE i \in DOMAIN b : b[i].t = "300" /\ b[i].date = day]

\* the status flag the day was generated with
FlagOf(nmi, day) == Own300(NMI12, nmi, day).flag

\* positions of the F-flagged 300 records in a block, and the records
FPositions(b) == {i \in DOMAIN b : b[i].t = "300" /\ b[i].flag = "F"}
FRecords(lines, nmi) ==
    SelectSeq(BlockOf(lines, nmi), LAMBDA l : l.t = "300" /\ l.flag = "F")

\* the days of the run of N days that ends right before the day
NRunBefore(nmi, day) ==
    {d \in 1..(day - 1) : \A e \in d..(day - 1) : FlagOf(nmi, e) = "N"}

\* an A or V day right after an N day
IsTrigger(nmi, day) == FlagOf(nmi, day) \in {"A", "V"} /\ NRunBefore(nmi, day) # {}

GenuineBefore(nmi, day) == {d \in 1..(day - 1) : FlagOf(nmi, d) # "N"}

\* an N day with an earlier non-N day carries that day's 610 total
CarriesLastGenuine(nmi, day) ==
    LET v == Line610(NMI12_modified[Max(GenuineBefore(nmi, day))], nmi).total
    IN  /\ Line610(NMI12_modified[day], nmi).total = v
        /\ Line710(NMI12_modified[day], nmi).total = v

\* how many 300 records of a meter, over all files, are dated the given day
Copies(folder, nmi, day) ==
    Cardinality({p \in (DOMAIN folder) \X (1..(2 * NFiles + 8)) :
        LET b == BlockOf(folder[p[1]], nmi)
        IN  p[2] \in DOMAIN b /\ b[p[2]].t = "300" /\ b[p[2]].date = day})

\* ------------------------------------------------------------------------
\* Properties of the reconciliation (checked under Spec)
\* ------------------------------------------------------------------------

\* C1: after the Carry-Forward Corrector has run, every N-flagged day of a
\* meter that has a non-N day in a strictly earlier file carries, in both its
\* 610 and its 710 record, the cumulative total of the 610 record of the
\* nearest earlier non-N day.
C1_CarryForward ==
    pc = "done" =>
        \A nmi \in Meters : \A day \in FileDays :
            (FlagOf(nmi, day) = "N" /\ GenuineBefore(nmi, day) # {}) =>
                CarriesLastGenuine(nmi, day)

\* C2: when some N-flagged day has no non-N day in any strictly earlier
\* file, the corrector's pass still completes, the cumulative totals of that
\* day's 610 and 710 records stay as generated, and the N-flagged days that
\* do have an earlier non-N day are corrected.
C2_NoPreviousIsNoOp ==
    pc = "done" =>
        ( (\E nmi \in Meters : \E day \in FileDays :
               FlagOf(nmi, day) = "N" /\ GenuineBefore(nmi, day) = {}) =>
            /\ ~step6_raised
            /\ \A nmi \in Meters : \A day \in FileDays :
                   FlagOf(nmi, day) = "N" =>
                       IF GenuineBefore(nmi, day) = {}
                       THEN /\ Line610(NMI12_modified[day], nmi).total =
                                   Line610(NMI12[day], nmi).total
                            /\ Line710(NMI12_modified[day], nmi) = Line710(NMI12[day], nmi)
                       ELSE CarriesLastGenuine(nmi, day) )

\* C3: when a maximal run of N days of a meter is immediately followed by an
\* A or V day D, D's file holds in that meter's block exactly the 300
\* records of the run's days, once each, oldest first, as generated but with
\* flag F; each of those days still has its N record in its own file, so its
\* record appears exactly twice over all files.
C3_OverlayOnTrigger ==
    pc \in {"overlaid", "done"} =>
        \A nmi \in Meters : \A day \in FileDays :
            IsTrigger(nmi, day) =>
                LET run == NRunBefore(nmi, day)
                    f == FRecords(NMI12_modified[day], nmi)
                IN  /\ Len(f) = Cardinality(run)
                    /\ \A k \in DOMAIN f :
                           f[k] = [Own300(NMI12, nmi, Min(run) + k - 1) EXCEPT !.flag = "F"]
                    /\ \A d \in run :
                           /\ Own300(NMI12_modified, nmi, d).flag = "N"
                           /\ Copies(NMI12_modified, nmi, d) = 2

W_C3_RunOfTwoOverlaid ==
    /\ pc = "overlaid"
    /\ \E nmi \in Meters :
           /\ FlagOf(nmi, 1) = "N" /\ FlagOf(nmi, 2) = "N" /\ FlagOf(nmi, 3) \in {"A", "V"}
           /\ Len(FRecords(NMI12_modified[3], nmi)) = 2
           /\ FRecords(NMI12_modified[3], nmi)[1].date = 1

\* C4 as claimed: the record right after the last inserted F record is the
\* meter's 610 record.
C4_InsertedAbove610 ==
    pc \in {"overlaid", "done"} =>
        \A nmi \in Meters : \A day \in FileDays :
            IsTrigger(nmi, day) =>
                LET b == BlockOf(NMI12_modified[day], nmi)
                IN  b[Max(FPositions(b)) + 1].t = "610"

\* C4: the F records inserted for a meter into the trigger day's file stand
\* together right after the meter's 200 record and directly above the
\* trigger day's own 300 record, whose 400 records and 610 record follow it.
C4_InsertedAboveOwn300 ==
    pc \in {"overlaid", "done"} =>
        \A nmi \in Meters : \A day \in FileDays :
            IsTrigger(nmi, day) =>
                LET b == BlockOf(NMI12_modified[day], nmi)
                    last == Max(FPositions(b))
                IN  /\ FPositions(b) = 2..last
                    /\ b[last + 1] = Own300(NMI12, nmi, day)
                    /\ \A i \in (last + 2)..Len(b) : b[i].t \in {"400", "610", "710"}
                    /\ \E i \in (last + 2)..Len(b) : b[i].t = "610"

W_C4_TriggerWithDetail ==
    /\ pc = "overlaid"
    /\ FlagOf(1, 3) = "V" /\ FlagOf(1, 2) = "N" /\ FlagOf(1, 1) = "N"
    /\ LET b == BlockOf(NMI12_modified[3], 1)
       IN  /\ b[2].flag = "F" /\ b[3].flag = "F"
           /\ b[4].flag = "V"
           /\ b[5].t = "400"

\* C5: an A or V day that does not directly follow an N day gets no F record
\* in its file for the meter, no record of a run of N days that reaches the
\* last file is inserted anywhere, and every F-flagged 300 record of any
\* file is a day of the N run that ends right before that file's A or V day.
C5_NoOverlayWithoutTrigger ==
    pc \in {"overlaid", "done"} =>
        \A nmi \in Meters : \A day \in FileDays :
            LET f == FRecords(NMI12_modified[day], nmi)
            IN  /\ ~IsTrigger(nmi, day) => f = << >>
                /\ \A k \in DOMAIN f : f[k].date \in NRunBefore(nmi, day)
                /\ (\A e \in day..NFiles : FlagOf(nmi, e) = "N") =>
                       Copies(NMI12_modified, nmi, day) = 1
                /\ FRecords(NMI12[day], nmi) = << >>

W_C5_UntriggeredDays ==
    /\ pc = "overlaid"
    /\ FlagOf(1, 1) = "N" /\ FlagOf(1, 2) = "A" /\ FlagOf(1, 3) = "A"
    /\ FlagOf(2, 1) = "A" /\ FlagOf(2, 2) = "N" /\ FlagOf(2, 3) = "N"
    /\ Len(FRecords(NMI12_modified[2], 1)) = 1

\* C6: with readings that never decrease, after generation, overlay and
\* carry-forward the cumulative total of a meter's 610 and 710 records never
\* decreases from one day file to the next, and an N-flagged day's 710 total
\* equals the last non-N total before it.
C6_MonotonicTotals ==
    pc = "done" =>
        \A nmi \in Meters : \A day \in FileDays :
            /\ \A e \in FileDays :
                   day < e =>
                       /\ Line610(NMI12_modified[day], nmi).total <=
                              Line610(NMI12_modified[e], nmi).total
                       /\ Line710(NMI12_modified[day], nmi).total <=
                              Line710(NMI12_modified[e], nmi).total
            /\ (FlagOf(nmi, day) = "N" /\ GenuineBefore(nmi, day) # {}) =>
                   Line710(NMI12_modified[day], nmi).total =
                       Line610(NMI12[Max(GenuineBefore(nmi, day))], nmi).total

\* ------------------------------------------------------------------------
\* Vocabulary of the estimator claims, over the grids as they were built
\* ------------------------------------------------------------------------
\* days first..last are a maximal run of fully-missing days
IsMissingRun(data, first, last) ==
    /\ first <= last
    /\ \A d \in first..last : AllMissing(data[d])
    /\ first = 1 \/ ~AllMissing(data[first - 1])
    /\ last = Len(data) \/ ~AllMissing(data[last + 1])

HasDayBefore(data, first) == first > 1
HasDayAfter(data, last) == last < Len(data)

RunsOf(data) ==
    {r \in (DOMAIN data) \X (DOMAIN data) : IsMissingRun(data, r[1], r[2])}

Unresolved(nmi, first, last) ==
    \A d \in first..last :
        AllMissing(meter_data_by_day[nmi][d]) /\ d \notin full_day_filled[nmi]

\* ------------------------------------------------------------------------
\* Properties of the Full-Day Estimator (checked under SpecEst)
\* ------------------------------------------------------------------------

\* C7: a maximal run of fully-missing days with a non-missing day before it
\* and one after it is synthesized from prevMax, the maximum of the nearest
\* prior non-missing day, and nextMin, the minimum of the first non-missing
\* day after the run: step = floor((nextMin - prevMax) / (runLength + 1)),
\* the day at offset d has slot 0 = prevMax + d*step and slot j = slot 0 +
\* floor(j*step/96), and every such day is flagged FullyEstimated.
C7_TwoSidedEstimate ==
    pc = "estimated" =>
        \A nmi \in DOMAIN built : \A r \in RunsOf(built[nmi]) :
            HasDayBefore(built[nmi], r[1]) /\ HasDayAfter(built[nmi], r[2]) =>
                LET prevMax == MaxValue(built[nmi][r[1] - 1])
                    nextMin == MinValue(built[nmi][r[2] + 1])
                    step == (nextMin - prevMax) \div ((r[2] - r[1] + 1) + 1)
                IN  \A d \in r[1]..r[2] :
                        /\ d \in full_day_filled[nmi]
                        /\ \A j \in Slots :
                               meter_data_by_day[nmi][d][j] =
                                   (prevMax + (d - r[1]) * step) + ((j * step) \div 96)

C9_OneSidedEstimate ==
    pc = "estimated" =>
        \A nmi \in DOMAIN built : \A r \in RunsOf(built[nmi]) :
            /\ ( ~HasDayBefore(built[nmi], r[1]) /\ HasDayAfter(built[nmi], r[2]) ) =>
                   \A d \in r[1]..r[2] :
                       /\ meter_data_by_day[nmi][d] = FlatGrid(MinValue(built[nmi][r[2] + 1]))
                       /\ d \in full_day_filled[nmi]
            /\ ( HasDayBefore(built[nmi], r[1]) /\ ~HasDayAfter(built[nmi], r[2]) ) =>
                   \A d \in r[1]..r[2] :
                       /\ meter_data_by_day[nmi][d] = FlatGrid(MaxValue(built[nmi][r[1] - 1]))
                       /\ d \in full_day_filled[nmi]

\* C10: a run of fully-missing days is left unresolved (grids all-missing,
\* not flagged FullyEstimated) if and only if the meter has no non-missing
\* day before the run and none after it.
C10_UnresolvedIff ==
    pc = "estimated" =>
        \A nmi \in DOMAIN built : \A r \in RunsOf(built[nmi]) :
            Unresolved(nmi, r[1], r[2]) <=>
                ( ~HasDayBefore(built[nmi], r[1]) /\ ~HasDayAfter(built[nmi], r[2]) )

\* ------------------------------------------------------------------------
\* Properties of the Intraday Interpolator (checked under SpecInterp)
\* ------------------------------------------------------------------------

\* C11: on a grid with a non-missing slot, every leading missing slot gets
\* the first non-missing value, the k-th slot of an interior run of g missing
\* slots between L and R gets L + k*floor((R-L)/(g+1)), every trailing
\* missing slot gets the last non-missing value, and non-missing slots keep
\* their value; [#,#,100,#,#,130,#] becomes [100,100,100,110,120,130,130];
\* an entirely missing grid comes back unchanged with no filled index.
C11_Interpolation ==
    pc = "interpolated" =>
        LET in == meter_data_by_day[1][1]
            out == df[1]
            present == {k \in 0..96 : in[k] # HASH}
        IN  /\ DOMAIN out = 0..96
            /\ IF present = {}
               THEN out = in /\ filled_timepoints[1] = << >>
               ELSE \A k \in 0..96 :
                      IF k \in present THEN out[k] = in[k]
                      ELSE IF k < Min(present) THEN out[k] = in[Min(present)]
                      ELSE IF k > Max(present) THEN out[k] = in[Max(present)]
                      ELSE LET l == Max({q \in present : q < k})
                               r == Min({q \in present : q > k})
                               g == r - l - 1
                           IN  out[k] = in[l] + (k - l) * ((in[r] - in[l]) \div (g + 1))
            /\ ( /\ present \cap (0..6) = {2, 5}
                 /\ in[2] = 100 /\ in[5] = 130
                 /\ present \cap (7..96) = {} ) =>
                   [k \in 0..6 |-> out[k]] =
                       [k \in 0..6 |-> <<100, 100, 100, 110, 120, 130, 130>>[k + 1]]

W_C11_ExampleRow ==
    /\ pc = "interpolated"
    /\ {k \in 0..96 : meter_data_by_day[1][1][k] # HASH} = {2, 5}
    /\ meter_data_by_day[1][1][2] = 100 /\ meter_data_by_day[1][1][5] = 130
    /\ df[1][3] = 110 /\ df[1][4] = 120 /\ df[1][0] = 100 /\ df[1][96] = 130

\* ------------------------------------------------------------------------
\* Properties of the Row Formatter
\* ------------------------------------------------------------------------

Rows400 == SelectSeq(BlockOf(NMI12[1], 1), LAMBDA l : l.t = "400")
Covered == UNION {Rows400[k].start..Rows400[k].end : k \in DOMAIN Rows400}
CoveredBy(label) ==
    UNION {Rows400[k].start..Rows400[k].end : k \in {n \in DOMAIN Rows400 : Rows400[n].label = label}}
NoOverlap ==
    \A a, b \in DOMAIN Rows400 :
        a # b => (Rows400[a].start..Rows400[a].end) \cap (Rows400[b].start..Rows400[b].end) = {}
FilledSlots == {filled_timepoints[1][k] : k \in DOMAIN filled_timepoints[1]}
IsVBlock == pc = "formatted" /\ Own300(NMI12, 1, 1).flag = "V"

\* the intervals next to a filled slot: the one that ends at it and the one
\* that starts at it
TwoIntervalMarks ==
    {i \in 1..96 : (i \in FilledSlots /\ i >= 1) \/ (i - 1 \in FilledSlots /\ i - 1 <= 95)}

\* the filled slot itself and the two slots next to it, slot 0 giving index 1
\* only and slot 96 index 96 only
ThreeSlotMarks ==
    {i \in 1..96 :
        \/ (i = 1 /\ 0 \in FilledSlots)
        \/ (i = 96 /\ 96 \in FilledSlots)
        \/ \E f \in FilledSlots : 0 < f /\ f < 96 /\ i \in {f - 1, f, f + 1}}

\* C13 as claimed (under SpecInterp): the 400 records of a V block cover
\* every index of 1..96 exactly once.
C13_SegmentsPartition ==
    IsVBlock => (NoOverlap /\ Covered = 1..96)

\* C13 (under SpecInterp): the 400 records of a V block never overlap and
\* lie in 1..96; they leave out index 96 exactly when 96 is not Filled while
\* 95 is (the Actual segment 96..96 is not written), they leave out every
\* index exactly when all 96 are Filled (no 400 record is written), and in
\* every other case they cover 1..96.
C13_SegmentsPartitionButDropped ==
    IsVBlock =>
        /\ NoOverlap
        /\ Covered \subseteq 1..96
        /\ IF TwoIntervalMarks = 1..96 THEN Rows400 = << >>
           ELSE IF 96 \notin TwoIntervalMarks /\ 95 \in TwoIntervalMarks
                THEN Covered = 1..95
                ELSE Covered = 1..96

W_C13_LastIntervalLeftOut ==
    /\ IsVBlock
    /\ FilledSlots = {94}
    /\ Len(Rows400) = 2
    /\ Covered = 1..95

\* C14 as claimed (under SpecInterp): in a V block an index of 1..96 is in a
\* Filled segment if it is a filled slot or next to one (slot 0 marking 1
\* only, slot 96 marking 96 only), and in an Actual segment otherwise; the
\* segments are maximal and sorted by start; N and A blocks have no 400 record.
C14_ThreeSlotMarking ==
    pc = "formatted" =>
        IF Own300(NMI12, 1, 1).flag = "V"
        THEN /\ CoveredBy("F") = ThreeSlotMarks
             /\ CoveredBy("A") = (1..96) \ ThreeSlotMarks
             /\ \A k \in 1..(Len(Rows400) - 1) :
                    /\ Rows400[k].end + 1 = Rows400[k + 1].start
                    /\ Rows400[k].label # Rows400[k + 1].label
        ELSE Rows400 = << >>

\* C14 (under SpecInterp): in a V block a filled slot i with 0 < i < 96
\* marks the intervals i and i+1 Filled, filled slot 0 marks 1 and filled
\* slot 96 marks 96; the other indices are Actual; each label's indices are
\* written as maximal ranges sorted by start, except that the Actual range
\* 96..96 is not written and a single Filled range 1..96 is not written; N
\* and A blocks have no 400 record.
C14_TwoIntervalMarking ==
    pc = "formatted" =>
        IF Own300(NMI12, 1, 1).flag = "V"
        THEN /\ TwoIntervalMarks # 1..96 =>
                    /\ CoveredBy("F") = TwoIntervalMarks
                    /\ CoveredBy("A") =
                           ((1..96) \ TwoIntervalMarks) \
                               (IF 95 \in TwoIntervalMarks THEN {96} ELSE {})
             /\ TwoIntervalMarks = 1..96 => Rows400 = << >>
             /\ \A k \in 1..(Len(Rows400) - 1) :
                    /\ Rows400[k].end + 1 = Rows400[k + 1].start
                    /\ Rows400[k].label # Rows400[k + 1].label
        ELSE Rows400 = << >>

W_C14_InteriorFilledSlot ==
    /\ IsVBlock
    /\ FilledSlots = {5}
    /\ Rows400 = << [t |-> "400", start |-> 1, end |-> 4, label |-> "A"],
                    [t |-> "400", start |-> 5, end |-> 6, label |-> "F"],
                    [t |-> "400", start |-> 7, end |-> 96, label |-> "A"] >>

\* ------------------------------------------------------------------------
\* Properties of the export files over their life (checked under Spec)
\* ------------------------------------------------------------------------
SameTotals(folder) ==
    \A day \in DOMAIN folder : \A nmi \in Meters :
        Line610(folder[day], nmi).total = Line710(folder[day], nmi).total

\* C18: in every export file, as generated, after the overlay and zeroing
\* pass and after the carry-forward pass, the 610 record and the 710 record
\* of a meter block carry the same cumulative total.
C18_SameTotalIn610And710 ==
    SameTotals(NMI12) /\ SameTotals(NMI12_modified)

W_C18_CarriedTotal ==
    /\ pc = "done"
    /\ ~step6_raised
    /\ \E nmi \in Meters : \E day \in FileDays :
           /\ FlagOf(nmi, day) = "N"
           /\ Line610(NMI12_modified[day], nmi).total # Line610(NMI12[day], nmi).total
           /\ Line710(NMI12_modified[day], nmi).total # Line710(NMI12[day], nmi).total

\* ------------------------------------------------------------------------
\* Properties of the daily table builder and of the grids (SpecBuild)
\* ------------------------------------------------------------------------
HasShape(grid) == DOMAIN grid = 0..96

GridsOf(data) == {data[nmi][day] : nmi \in Meters, day \in GridDays}

Rows300(lines) == {lines[i] : i \in {k \in DOMAIN lines : lines[k].t = "300"}}

\* C15: after the daily table builder, after the full-day estimator and
\* after the intraday interpolator, the grid of every meter of the mapping
\* and every day of the window has exactly the 97 slots 0..96, a meter with
\* no event included (all of its slots are missing), and the difference list
\* of every 300 record has exactly 96 entries.
C15_GridShape ==
    /\ pc # "messages" =>
          /\ \A nmi \in Meters : DOMAIN built[nmi] = GridDays
          /\ \A grid \in GridsOf(built) : HasShape(grid)
          /\ \A grid \in GridsOf(meter_data_by_day) : HasShape(grid)
          /\ \A nmi \in Meters :
                 (\A k \in DOMAIN messages : messages[k].nmi # nmi)
                     => \A day \in GridDays : AllMissing(built[nmi][day])
    /\ pc = "generated" =>
          /\ \A nmi \in Meters : HasShape(df[nmi])
          /\ \A day \in DOMAIN NMI12 : \A row \in Rows300(NMI12[day]) :
                 DOMAIN row.values = 1..96

W_C15_MeterWithoutEvents ==
    /\ pc = "generated"
    /\ DOMAIN NMI12 = FileDays
    /\ \A k \in DOMAIN messages : messages[k].nmi = 1
    /\ Len(messages) = 2
    /\ \E day \in GridDays : ~AllMissing(meter_data_by_day[1][day]) /\ AllMissing(built[1][day])
    /\ \A day \in FileDays :
           Cardinality({k \in DOMAIN NMI12[day] : NMI12[day][k].t = "300"}) = 2

\* the instant of slot j of a day, and whether an instant is within the day
SlotInstant(day, j) == DayStart(day) + j * SlotSeconds
WithinDay(t, day) == DayStart(day) <= t /\ t <= DayStart(day + 1)

\* slot j is nearest to t: no slot is nearer and no earlier slot is as near
IsNearestSlot(day, j, t) ==
    \A i \in 0..96 :
        /\ Abs(t - SlotInstant(day, j)) <= Abs(t - SlotInstant(day, i))
        /\ i < j => Abs(t - SlotInstant(day, j)) < Abs(t - SlotInstant(day, i))

\* the events of a meter that fall on slot j of a day, by position in the input
EventsOn(nmi, day, j) ==
    {k \in DOMAIN messages : /\ messages[k].nmi = nmi
                             /\ WithinDay(messages[k].timestamp, day)
                             /\ IsNearestSlot(day, j, messages[k].timestamp)}

\* C16: the builder writes each event of a meter of the mapping that lies
\* within a day (00:00 through 00:00 of the next day, both included) to the
\* slot nearest in absolute time, the earlier one of two equidistant slots;
\* a slot holds the reading of the last event in input order that falls on
\* it and is missing if none does; events of other meters change no grid.
C16_SlotAssignment ==
    pc # "messages" =>
        \A nmi \in Meters : \A day \in GridDays : \A j \in 0..96 :
            built[nmi][day][j] =
                IF EventsOn(nmi, day, j) = {} THEN HASH
                ELSE messages[Max(EventsOn(nmi, day, j))].reading

W_C16_TieAndOverwrite ==
    /\ pc = "built"
    /\ Len(messages) = 2
    /\ messages[1].nmi = 1 /\ messages[1].timestamp = 449 /\ messages[1].reading = 100
    /\ messages[2].nmi = 1 /\ messages[2].timestamp = 450 /\ messages[2].reading = 200
    /\ built[1][1][0] = 200
    /\ built[1][1][1] = HASH

\* C17: for every meter and every two consecutive days D, D+1 of the window,
\* slot 96 of the grid the builder makes for D equals slot 0 of the grid it
\* makes for D+1, whatever the events are.
C17_DayBoundary ==
    pc # "messages" =>
        \A nmi \in Meters : \A day \in GridDays :
            (day + 1) \in GridDays => built[nmi][day][96] = built[nmi][day + 1][0]

\* ------------------------------------------------------------------------
\* Properties of the errors of the row formatter (SpecBuild, SpecFormat)
\* ------------------------------------------------------------------------
\* the total of a meter and file day needs more than 15 digits
Overflows(nmi, day) ==
    Exceeds15Digits(nmi, interpolate_missing_values(meter_data_by_day[nmi][day]).values)

\* the files hold a 610 and a 710 record of the meter for the day
HasTotals(nmi, day) ==
    /\ day \in DOMAIN NMI12
    /\ \E i, j \in DOMAIN NMI12[day] :
           /\ NMI12[day][i].t = "610" /\ NMI12[day][i].nmi = NmiText(nmi)
           /\ NMI12[day][j].t = "710" /\ NMI12[day][j].nmi = NmiText(nmi)

NoTotals(nmi, day) ==
    day \in DOMAIN NMI12 =>
        \A i \in DOMAIN NMI12[day] :
            NMI12[day][i].t \in {"610", "710"} => NMI12[day][i].nmi # NmiText(nmi)

\* C19: when the cumulative total of a meter and day needs more than 15
\* digits, generation ends in an error and no 610 or 710 record is written
\* for that meter and day, while the records of the other meters for that
\* day and the files of the other days are written all the same.
C19_OverflowConfined ==
    pc = "generated" =>
        \A nmi \in Meters : \A day \in FileDays :
            IF Overflows(nmi, day)
            THEN step3_raised /\ NoTotals(nmi, day)
            ELSE HasTotals(nmi, day)

C25_ZeroedEstimatedDays ==
    pc \in {"overlaid", "done"} =>
        \A day \in DOMAIN NMI12_modified : \A nmi \in Meters :
            LET b == BlockOf(NMI12_modified[day], nmi)
                own == Own300(NMI12_modified, nmi, day)
            IN  /\ \A i \in DOMAIN b :
                       (b[i].t = "300" /\ b[i].flag = "N") =>
                           /\ \A k \in 1..96 : b[i].values[k] = 0
                           /\ Line610(NMI12_modified[day], nmi).day_total = 0
                /\ own.flag \in {"A", "V"} =>
                       /\ own = Own300(NMI12, nmi, day)
                       /\ Line610(NMI12_modified[day], nmi).day_total =
                              Line610(NMI12[day], nmi).day_total
                /\ \A i \in FPositions(b) :
                       /\ b[i].date \in DOMAIN NMI12
                       /\ Own300(NMI12, nmi, b[i].date).flag = "N"
                       /\ b[i] = [Own300(NMI12, nmi, b[i].date) EXCEPT !.flag = "F"]

W_C25_ZeroedAndOverlaid ==
    /\ pc = "overlaid"
    /\ \E nmi \in Meters : \E day, trigger \in FileDays :
           /\ FlagOf(nmi, day) = "N"
           /\ \E k \in 1..96 : Own300(NMI12, nmi, day).values[k] > 0
           /\ Line610(NMI12[day], nmi).day_total > 0
           /\ Own300(NMI12_modified, nmi, day).flag = "N"
           /\ day < trigger
           /\ FPositions(BlockOf(NMI12_modified[trigger], nmi)) # {}
           /\ Line610(NMI12_modified[trigger], nmi).day_total > 0

\* C28: whenever a block is flagged A, every one of the 97 slots of the
\* day's grid held a reading written by the daily table builder, and the 300
\* record of the block holds no missing marker.
C28_StatusAIsGenuine ==
    pc # "start" =>
        \A nmi \in Meters : \A day \in FileDays :
            FlagOf(nmi, day) = "A" =>
                /\ \A j \in 0..96 : built[nmi][day][j] # HASH
                /\ \A k \in 1..96 : Own300(NMI12, nmi, day).values[k] # HASH

HIT_TTL_SEC == 65
MISS_TTL_SEC == 30

\* the clock stops here
MaxNow == 100

\* by how much time.time() moves between two lookups
TickSteps == {30, 35}

\* dev_eui values of the rows: "a1", "A1", "b2", and the empty string
DevEuis == {<<97, 49>>, <<65, 49>>, <<98, 50>>, << >>}

\* str.upper()
Upper(s) == [i \in DOMAIN s |-> IF s[i] \in 97..122 THEN s[i] - 32 ELSE s[i]]

\* key = (schema, dev_eui.upper(), int(ch))
CacheKey(schema, dev_eui, ch) == <<schema, Upper(dev_eui), ch>>

Keys == {CacheKey("public", e, 1) : e \in DevEuis \ {<< >>}}

\* None
None == 0

\* the dictionary of _query_mapping: the row of the table whose upper-cased
\* LoRaWANDevEUI and Channel match, or None in every field
query_mapping(rows, schema, dev_eui, channel) ==
    IF CacheKey(schema, dev_eui, channel) \in rows
    THEN [nmi |-> 1, meter_serial |-> 1]
    ELSE [nmi |-> None, meter_serial |-> None]

\* any(data.values())
AnyValue(data) == \E f \in DOMAIN data : data[f] # None

\* entry.get("expires", 0)
ExpiresOf(entry) == IF "expires" \in DOMAIN entry THEN entry.expires ELSE 0

\* `entry and entry.get("expires", 0) > now`
ServedFromCache(c, key, t) == key \in DOMAIN c /\ ExpiresOf(c[key]) > t

\* what the cache is after _CACHE[key] = entry
Store(c, key, entry) ==
    [k \in DOMAIN c \cup {key} |-> IF k = key THEN entry ELSE c[k]]

\* the first lines of fill_from_mapping: a key without an entry is queried
\* and the dictionary of the query is stored as the entry
first_get(c, rows, schema, dev_eui, ch) ==
    LET key == CacheKey(schema, dev_eui, ch)
    IN  IF key \in DOMAIN c
        THEN [cache |-> c, queries |-> 0]
        ELSE [cache |-> Store(c, key, query_mapping(rows, schema, dev_eui, ch)),
              queries |-> 1]

\* _get_mapping_with_cache: the value, the cache afterwards and the number
\* of queries it made
get_mapping_with_cache(c, rows, t, schema, dev_eui, channel) ==
    LET key == CacheKey(schema, dev_eui, channel)
        data == query_mapping(rows, schema, dev_eui, channel)
        ttl == IF AnyValue(data) THEN HIT_TTL_SEC ELSE MISS_TTL_SEC
    IN  IF ServedFromCache(c, key, t)
        THEN [value |-> c[key].value, cache |-> c, queries |-> 0]
        ELSE [value |-> data,
              cache |-> Store(c, key, [value |-> data, expires |-> t + ttl]),
              queries |-> 1]

\* what the lookup met in the cache: no entry, a fresh one or an expired one
Met(c, key, t) ==
    IF key \notin DOMAIN c THEN "none"
    ELSE IF ExpiresOf(c[key]) > t THEN "fresh" ELSE "expired"

InitCache ==
    /\ pc = "lookups"
    /\ cache = << >>
    /\ now = 0
    /\ db \in SUBSET Keys
    /\ last_lookup = << >>
    /\ messages = << >>
    /\ built = << >>
    /\ meter_data_by_day = << >>
    /\ full_day_filled = << >>
    /\ nmi_order = <<1, 2>>
    /\ NMI12 = << >>
    /\ backtracked = << >>
    /\ NMI12_modified = << >>
    /\ step6_raised = FALSE
    /\ df = << >>
    /\ filled_timepoints = << >>
    /\ step3_raised = FALSE
    /\ IoIdle
    /\ mapping_file = "distinct"

lookup_unchanged ==
    UNCHANGED <<pc, built, meter_data_by_day, full_day_filled, NMI12, backtracked,
                NMI12_modified, step6_raised, nmi_order, gen_vars, io_vars,
                mapping_file>>

\* fill_from_mapping(row) for a row of schema "public" and channel 1
fill_from_mapping ==
    /\ pc = "lookups"
    /\ \E dev_eui \in DevEuis :
          IF dev_eui = << >>
          THEN /\ last_lookup' = [met |-> "missing key", queries |-> 0]
               /\ UNCHANGED cache
          ELSE LET key == CacheKey("public", dev_eui, 1)
                   first == first_get(cache, db, "public", dev_eui, 1)
                   got == get_mapping_with_cache(first.cache, db, now,
                                                 "public", dev_eui, 1)
               IN  /\ cache' = got.cache
                   /\ last_lookup' = [met |-> Met(cache, key, now),
                                      key |-> key,
                                      at |-> now,
                                      found |-> key \in db,
                                      value |-> got.value,
                                      queries |-> first.queries + got.queries]
    /\ UNCHANGED <<now, db>>
    /\ lookup_unchanged

\* time passes between two lookups
Tick ==
    /\ pc = "lookups"
    /\ \E d \in TickSteps : now + d <= MaxNow /\ now' = now + d
    /\ UNCHANGED <<cache, db, last_lookup>>
    /\ lookup_unchanged

\* a row is written to or deleted from <schema>.meter_serial_mapping
ChangeMapping ==
    /\ pc = "lookups"
    /\ \E key \in Keys : db' = IF key \in db THEN db \ {key} ELSE db \cup {key}
    /\ UNCHANGED <<cache, now, last_lookup>>
    /\ lookup_unchanged

NextCache == fill_from_mapping \/ Tick \/ ChangeMapping

SpecCache == InitCache /\ [][NextCache]_vars

\* C26: a lookup that met a fresh cache entry made no database query; a
\* lookup that met no entry or an expired one made exactly one query and
\* stored its result to expire 65 s later when a mapping was found and 30 s
\* later when it was not
C26_OneQueryPerStaleLookup ==
    (last_lookup # << >> /\ last_lookup.met # "missing key") =>
        /\ last_lookup.met = "fresh" => last_lookup.queries = 0
        /\ last_lookup.met \in {"none", "expired"} =>
              /\ last_lookup.queries = 1
              /\ cache[last_lookup.key] =
                    [value |-> last_lookup.value,
                     expires |-> last_lookup.at +
                         (IF last_lookup.found THEN 65 ELSE 30)]

\* ---------------------------------------------------------------------------
\* Reconciliation file by file: step5 and step6 as the sequence of their file
\* operations, an interruption at any of them, and a second run from step4
\* ---------------------------------------------------------------------------

\* step5_main(src_folder=..., dest_folder=...), step6_main(folder_path=...)
src_folder == "data_merged/NMI12"
dest_folder == "data_merged/NMI12_modified"
\* A step6 that works on the folder of the generated files.
step6_on_generated == "data_merged/NMI12"

step6_folder_path == "data_merged/NMI12_modified"

\* the files of a folder, <<>> for a folder that does not exist
FolderOf(name) == IF name = src_folder THEN NMI12 ELSE NMI12_modified

\* A copy that leaves an existing destination folder as it is.
copy_if_absent(src, dest) ==
    IF FolderOf(dest) # << >> THEN << >>
    ELSE [day \in DOMAIN FolderOf(src) |->
             [op |-> "copy", folder |-> dest, from |-> src, day |-> day]]

\* copy_folder: shutil.rmtree of an existing destination, then shutil.copytree
copy_folder(src, dest) ==
    (IF FolderOf(dest) # << >> THEN <<[op |-> "rmtree", folder |-> dest]>> ELSE << >>)
    \o [day \in DOMAIN FolderOf(src) |->
           [op |-> "copy", folder |-> dest, from |-> src, day |-> day]]

\* insert_trigger_data: one pass of the loop per (serial, trigger_date) group
insert_ops(folder_name, records) ==
    LET keys == GroupKeys(records, 1, << >>)
    IN  [k \in DOMAIN keys |->
            [op |-> "insert", folder |-> folder_name, day |-> keys[k][2],
             key |-> keys[k]]]

\* A zeroing pass that handles every file twice.
zero_ops_twice(folder_name, days) ==
    [k \in 1..(2 * Cardinality(days)) |->
        [op |-> "zero", folder |-> folder_name, day |-> (k + 1) \div 2]]

\* process_all_files: load, modify_300_and_610 and save every file
zero_ops(folder_name, days) ==
    [k \in 1..Cardinality(days) |-> [op |-> "zero", folder |-> folder_name, day |-> k]]

\* modify_csv_files: one pass of the loop per file of meter_dict
carry_ops(folder_name, meter_dict) ==
    [day \in DOMAIN meter_dict |->
        [op |-> "carry", folder |-> folder_name, day |-> day,
         entries |-> meter_dict[day]]]

\* the lines an operation saves to its file; `save` is FALSE when it saves
\* nothing, `raised` when it ends the step in an exception
Outcome(op) ==
    LET folder == FolderOf(op.folder)
        nothing == [save |-> FALSE, raised |-> FALSE, lines |-> << >>]
    IN  IF op.day \notin DOMAIN folder THEN nothing
        ELSE IF op.op = "insert"
        THEN LET new == InsertGroup(folder, backtracked, op.key)
             IN  IF new = folder THEN nothing
                 ELSE [save |-> TRUE, raised |-> FALSE, lines |-> new[op.day]]
        ELSE IF op.op = "zero"
        THEN [save |-> TRUE, raised |-> FALSE,
              lines |-> modify_300_and_610(folder[op.day])]
        ELSE LET r == ModifyLines(folder[op.day], op.entries, 1)
             IN  [save |-> ~r.raised, raised |-> r.raised, lines |-> r.lines]

\* the folder `name` becomes `files`
SetFolder(name, files) ==
    IF name = src_folder
    THEN NMI12' = files /\ UNCHANGED NMI12_modified
    ELSE NMI12_modified' = files /\ UNCHANGED NMI12

\* meter 1 has whole days of readings or none; meter 2 has readings on day 1
KindsIO1 == [GridDays -> {"M", "A"}]
KindsIO2 == {k \in Kinds2 : k[1] = "A"}

InitIO ==
    /\ pc = "start"
    /\ \E k1 \in KindsIO1, k2 \in KindsIO2 : built = InputGrids(k1, k2)
    /\ meter_data_by_day = built
    /\ full_day_filled = [nmi \in Meters |-> {}]
    /\ nmi_order \in Orders
    /\ NMI12 = << >>
    /\ backtracked = << >>
    /\ NMI12_modified = << >>
    /\ step6_raised = FALSE
    /\ messages = << >>
    /\ df = << >>
    /\ filled_timepoints = << >>
    /\ step3_raised = FALSE
    /\ IoIdle
    /\ CacheIdle
    /\ mapping_file = "distinct"

io_unchanged ==
    UNCHANGED <<built, meter_data_by_day, full_day_filled, backtracked, nmi_order,
                gen_vars, cache_vars, mapping_file>>

\* step5_main is entered
BeginStep5 ==
    /\ pc = "scanned"
    /\ pc' = "step5"
    /\ runs' = runs + 1
    /\ todo' = copy_folder(src_folder, dest_folder)
                 \o insert_ops(dest_folder, backtracked)
                 \o zero_ops(dest_folder, DOMAIN FolderOf(src_folder))
    /\ UNCHANGED <<NMI12, NMI12_modified, step6_raised, opened, writes>>
    /\ io_unchanged

\* shutil.rmtree(dest_folder)
Rmtree ==
    /\ pc = "step5" /\ todo # << >> /\ Head(todo).op = "rmtree"
    /\ SetFolder(Head(todo).folder, << >>)
    /\ writes' = << >>
    /\ todo' = Tail(todo)
    /\ UNCHANGED <<pc, step6_raised, opened, runs>>
    /\ io_unchanged

\* shutil.copytree creates the next file of the copy
CopyFile ==
    /\ pc = "step5" /\ todo # << >> /\ Head(todo).op = "copy"
    /\ LET op == Head(todo)
       IN  SetFolder(op.folder, Append(FolderOf(op.folder), FolderOf(op.from)[op.day]))
    /\ writes' = Append(writes, 0)
    /\ todo' = Tail(todo)
    /\ UNCHANGED <<pc, step6_raised, opened, runs>>
    /\ io_unchanged

\* load the file of the next operation and, when there is something to save,
\* open(file_path, "w"): the file is empty until the lines are written
OpenFile ==
    /\ pc \in {"step5", "step6"} /\ todo # << >> /\ opened = NotOpen
    /\ Head(todo).op \in {"insert", "zero", "carry"}
    /\ LET op == Head(todo)
           out == Outcome(op)
       IN  /\ ~out.raised
           /\ IF out.save
              THEN /\ opened' = [folder |-> op.folder, day |-> op.day,
                                 before |-> FolderOf(op.folder)[op.day],
                                 lines |-> out.lines]
                   /\ SetFolder(op.folder,
                                [FolderOf(op.folder) EXCEPT ![op.day] = << >>])
                   /\ UNCHANGED todo
              ELSE /\ todo' = Tail(todo)
                   /\ UNCHANGED <<opened, NMI12, NMI12_modified>>
    /\ UNCHANGED <<pc, step6_raised, writes, runs>>
    /\ io_unchanged

\* f.writelines(lines) and the end of the `with` block
WriteLines ==
    /\ pc \in {"step5", "step6"} /\ opened # NotOpen
    /\ SetFolder(opened.folder,
                 [FolderOf(opened.folder) EXCEPT ![opened.day] = opened.lines])
    /\ writes' = IF opened.folder = src_folder THEN writes
                 ELSE [writes EXCEPT ![opened.day] = @ + 1]
    /\ opened' = NotOpen
    /\ todo' = Tail(todo)
    /\ UNCHANGED <<pc, step6_raised, runs>>
    /\ io_unchanged

\* step5_main returns
EndStep5 ==
    /\ pc = "step5" /\ todo = << >>
    /\ pc' = "overlaid"
    /\ UNCHANGED <<NMI12, NMI12_modified, step6_raised, io_vars>>
    /\ io_unchanged

\* step6_main is entered: count_n_flags_with_backtracking reads every file
BeginStep6 ==
    /\ pc = "overlaid"
    /\ pc' = "step6"
    /\ todo' = carry_ops(step6_folder_path,
                         count_n_flags_with_backtracking(FolderOf(step6_folder_path)))
    /\ UNCHANGED <<NMI12, NMI12_modified, step6_raised, opened, writes, runs>>
    /\ io_unchanged

\* the TypeError of modify_csv_files ends step6; master_main logs it
RaiseStep6 ==
    /\ pc = "step6" /\ todo # << >> /\ opened = NotOpen
    /\ Outcome(Head(todo)).raised
    /\ step6_raised' = TRUE
    /\ todo' = << >>
    /\ pc' = "done"
    /\ UNCHANGED <<NMI12, NMI12_modified, opened, writes, runs>>
    /\ io_unchanged

\* step6_main returns
EndStep6 ==
    /\ pc = "step6" /\ todo = << >>
    /\ pc' = "done"
    /\ UNCHANGED <<NMI12, NMI12_modified, step6_raised, io_vars>>
    /\ io_unchanged

\* the process is killed or the disk fails: a file that is being written is
\* left with only some of its lines
Fail ==
    /\ pc \in {"scanned", "step5", "overlaid", "step6"}
    /\ pc' = "failed"
    /\ IF opened = NotOpen THEN UNCHANGED <<NMI12, NMI12_modified>>
       ELSE \E n \in {0, Len(opened.lines) \div 2} :
               SetFolder(opened.folder,
                         [FolderOf(opened.folder) EXCEPT ![opened.day] =
                             SubSeq(opened.lines, 1, n)])
    /\ UNCHANGED <<step6_raised, io_vars>>
    /\ io_unchanged

\* the operator runs step4, step5 and step6 again from scratch
Rerun ==
    /\ pc \in {"failed", "done"} /\ runs = 1
    /\ pc' = "generated"
    /\ todo' = << >>
    /\ opened' = NotOpen
    /\ step6_raised' = FALSE
    /\ UNCHANGED <<NMI12, NMI12_modified, writes, runs>>
    /\ io_unchanged

NextIO ==
    \/ Step3 \/ Step4
    \/ BeginStep5 \/ Rmtree \/ CopyFile \/ OpenFile \/ WriteLines \/ EndStep5
    \/ BeginStep6 \/ RaiseStep6 \/ EndStep6
    \/ Fail \/ Rerun

SpecIO == InitIO /\ [][NextIO]_vars

\* C27: no step of reconciliation changes a file of the generation folder:
\* step5 works on a fresh copy and step6 on that copy
C27_GeneratedFilesUntouched == [][pc # "start" => NMI12' = NMI12]_vars

\* a finished reconciliation whose copy has been rewritten and differs from
\* the generated files
W_C27_CopyRewritten ==
    /\ pc = "done"
    /\ NMI12 # << >>
    /\ NMI12_modified # NMI12
    /\ \A day \in DOMAIN NMI12 : writes[day] >= 2

\* step4, step5 and step6 run without interruption over the generated files
Reconciled(generated) ==
    LET records == backtrack_meter_data(process_nem12_files(generated))
        overlaid == process_all_files(insert_trigger_data(generated, records))
    IN  modify_csv_files(overlaid, count_n_flags_with_backtracking(overlaid), 1)

\* C23: whenever a run of step4, step5, step6 has finished, the first run or
\* the run restarted from scratch after a finished or an interrupted one, the
\* reconciled files are those of one uninterrupted run over the generated
\* files, and no meter block holds two F records of the same day
C23_RerunGivesSameFiles ==
    pc = "done" =>
        /\ NMI12_modified = Reconciled(NMI12).folder
        /\ step6_raised = Reconciled(NMI12).raised
        /\ \A day \in DOMAIN NMI12_modified : \A nmi \in Meters :
               LET b == BlockOf(NMI12_modified[day], nmi)
               IN  \A i, j \in FPositions(b) : b[i].date = b[j].date => i = j

\* a second run has finished over files into which F records are inserted
W_C23_SecondRunFinished ==
    /\ pc = "done"
    /\ runs = 2
    /\ \E day \in DOMAIN NMI12_modified : \E nmi \in Meters :
           FPositions(BlockOf(NMI12_modified[day], nmi)) # {}
    /\ \E day \in DOMAIN NMI12_modified : NMI12_modified[day] # NMI12[day]

\* C24 as stated: a file of the reconciled copy is rewritten at most twice
\* after its creation, however many meters have a triggered run or an N flag
C24_AtMostTwoRewrites == \A day \in DOMAIN writes : writes[day] <= 2

\* the meters whose run of N days ends at the day
TriggeredOn(day) == {nmi \in Meters : IsTrigger(nmi, day)}

\* C24 amended: after its creation by copy_folder a file of the reconciled
\* copy is rewritten once for every meter whose triggered run ends on its
\* day, once by the zeroing pass over all files and at most once by the
\* carry-forward step, which rewrites every file it reaches
C24_RewritesPerFile ==
    \A day \in DOMAIN writes :
        LET n == Cardinality(TriggeredOn(day))
        IN  /\ writes[day] <= n + 2
            /\ pc = "overlaid" => writes[day] = n + 1
            /\ (pc = "done" /\ ~step6_raised) => writes[day] = n + 2

\* a finished run in which the file of a day that ends the runs of two meters
\* has been rewritten four times
W_C24_FourRewrites ==
    /\ pc = "done"
    /\ \E day \in DOMAIN writes :
           Cardinality(TriggeredOn(day)) = 2 /\ writes[day] = 4

\* C22: after an interruption at any point of step5 or step6 every file of
\* the reconciled copy is whole, with the lines it had before the write that
\* was under way or with the lines of that write, and none is missing
C22_NoPartialFile ==
    pc = "failed" =>
        /\ NMI12_modified # << >> => DOMAIN NMI12_modified = DOMAIN NMI12
        /\ opened # NotOpen =>
               FolderOf(opened.folder)[opened.day] \in {opened.before, opened.lines}

\* ---------------------------------------------------------------------------
\* The pipeline over registers that advance unevenly
\* ---------------------------------------------------------------------------
\* a day without readings, or a day that starts at one level and ends at
\* one; the last pair is a register that goes down
GapPairs == {<<100, 100>>, <<100, 200>>, <<200, 200>>, <<200, 500>>, <<500, 200>>}
GapGrids == {FlatGrid(HASH)} \cup {StepGrid(p[1], p[2]) : p \in GapPairs}

\* meter 1 is drawn from GapGrids, meter 2 has its readings on every day
InitGap ==
    /\ pc = "start"
    /\ \E g \in [GridDays -> GapGrids] :
          built = [nmi \in Meters |->
                      IF nmi = 1 THEN g ELSE [day \in GridDays |-> KindGrid(day, "A")]]
    /\ meter_data_by_day = built
    /\ full_day_filled = [nmi \in Meters |-> {}]
    /\ nmi_order = <<1, 2>>
    /\ NMI12 = << >>
    /\ backtracked = << >>
    /\ NMI12_modified = << >>
    /\ step6_raised = FALSE
    /\ messages = << >>
    /\ df = << >>
    /\ filled_timepoints = << >>
    /\ step3_raised = FALSE
    /\ IoIdle
    /\ CacheIdle
    /\ mapping_file = "distinct"

SpecGap == InitGap /\ [][Next]_vars

\* the days of a meter that have a reading
Received(grids) == {d \in DOMAIN grids : NonHashSlots(grids[d]) # {}}

\* the readings of a meter never go down, within a day and from day to day
NonDecreasing(grids) ==
    /\ \A d \in Received(grids) : \A j \in 1..(NSlots - 1) :
           (grids[d][j - 1] # HASH /\ grids[d][j] # HASH) => grids[d][j - 1] <= grids[d][j]
    /\ \A d, e \in Received(grids) : d < e => MaxValue(grids[d]) <= MinValue(grids[e])

RECURSIVE AbsorbedFrom(_, _)
AbsorbedFrom(records, k) ==
    IF k > Len(records) THEN 0
    ELSE sum_of_differences(records[k].values) + AbsorbedFrom(records, k + 1)

\* the consumption of the F records of a file for a meter, in thousandths
Absorbed(lines, nmi) == AbsorbedFrom(FRecords(lines, nmi), 1)

\* C29: for non-decreasing readings, the consumption of the F records
\* inserted into the file of a trigger day is at most the real gap: the
\* minimum reading of the trigger day less the maximum reading of the
\* nearest day with readings before the run
C29_AbsorbedWithinGap ==
    pc \in {"overlaid", "done"} =>
        \A nmi \in Meters : \A day \in FileDays :
            LET before == Received(built[nmi]) \cap 1..(day - 1)
            IN  (NonDecreasing(built[nmi]) /\ IsTrigger(nmi, day) /\ before # {}) =>
                    Absorbed(NMI12_modified[day], nmi) <=
                        10 * (MinValue(built[nmi][day]) - MaxValue(built[nmi][Max(before)]))

\* ---------------------------------------------------------------------------
\* The pipeline over a mapping file whose serials may be nested
\* ---------------------------------------------------------------------------
MappingFiles == {"distinct", "nested"}

InitNested ==
    /\ pc = "start"
    /\ \E k1 \in KindsIO1, k2 \in KindsIO2 : built = InputGrids(k1, k2)
    /\ meter_data_by_day = built
    /\ full_day_filled = [nmi \in Meters |-> {}]
    /\ nmi_order \in Orders
    /\ NMI12 = << >>
    /\ backtracked = << >>
    /\ NMI12_modified = << >>
    /\ step6_raised = FALSE
    /\ messages = << >>
    /\ df = << >>
    /\ filled_timepoints = << >>
    /\ step3_raised = FALSE
    /\ IoIdle
    /\ CacheIdle
    /\ mapping_file \in MappingFiles

SpecNested == InitNested /\ [][Next]_vars

\* the meter has no N day in the window: nothing is overlaid or carried
\* forward for it
NothingToReconcile(nmi) == \A day \in FileDays : FlagOf(nmi, day) \in {"A", "V"}

\* C30: what step5 and step6 do for one meter changes records of that
\* meter's block only, also when its serial is part of another meter's
\* serial: the block of a meter that has no N day is, in every reconciled
\* file, the block that was generated
C30_OtherBlocksKept ==
    pc \in {"overlaid", "done"} =>
        \A nmi \in Meters : NothingToReconcile(nmi) =>
            \A day \in FileDays :
                BlockOf(NMI12_modified[day], nmi) = BlockOf(NMI12[day], nmi)

====
